---- MODULE Spec2Model ----
(***************************************************************************)
(* A model of hyperlink's link-checking pipeline: the URL canonicalizer    *)
(* (src/src/html/mod.rs, src/src/urls.rs), the BrokenLinkCollector         *)
(* (src/src/collector.rs) and the parallel driver (src/src/main.rs).       *)
(*                                                                         *)
(* Strings are sequences of one-character strings, so that the string      *)
(* algorithms (find, split, truncate, prefix tests) are computed as the    *)
(* code computes them.                                                     *)
(***************************************************************************)
EXTENDS Naturals, Integers, Sequences, FiniteSets, Bags, TLC

VARIABLES
    \* ---- collector algebra (SpecCollector) ----
    colls,          \* slot -> BrokenLinkCollector value
    hist,           \* slot -> sequence of Links ingested so far (merges append)
    owner,          \* slot -> slot that now holds its content (merge moves it)
    ops,            \* number of ingest operations performed so far
    \* ---- pipeline (Spec) ----
    check_anchors,  \* the --check-anchors option
    corpus,         \* file -> the link-bearing attributes of its content
    todo,           \* enumerated files not yet handed to the fold closure
    acc,            \* the fold accumulators not yet reduced away
    pc,             \* "idle" | "scan" | "sources" | "report" | "failed" | "exited"
    broken_links,   \* output of get_broken_links (sequence)
    exit_code,      \* process exit status, -1 while running
    sources_path,   \* the --sources option: None or the tree of source files
    paragraps_to_sourcefile, \* the entries (paragraph, source, lineno) of the index
    bad_links_and_anchors,   \* the diagnostics check_links prints
    sources_read,   \* the source files opened so far (history)
    stdout,         \* the lines printed so far
    \* ---- canonicalizer (SpecUrls) ----
    u_path,         \* path of the document that holds the link
    u_raw,          \* the raw href
    u_href,         \* the hrefs computed so far (sequence)
    u_ext,          \* result of is_external_link, "unset" before the call
    u_target,       \* the index file the site holds besides the document (scan);
                    \* the preserve_anchor argument (join)
    u_report,       \* get_broken_links of the site (sequence)
    u_links,        \* the link buffer of the document (sequence)
    u_pc,           \* "idle" | "new" | the name of the last step
    \* ---- paragraph walker (SpecHasher) ----
    h_hasher,       \* the bytes the hasher has taken since its last reset
    h_fed,          \* the texts given to update since the last finish_paragraph
    h_out,          \* for every finish_paragraph: its digest and the texts before it
    h_pc,           \* "idle" | "walking"
    \* ---- HTML extraction of one document (SpecExtract) ----
    e_em,           \* the HyperlinkEmitter
    e_n,            \* number of tokens so far
    e_open,         \* a paragraph start tag was emitted and no paragraph end tag since
    e_since,        \* length of the link buffer after the last paragraph start tag
    e_vis,          \* the texts emitted since the last paragraph start tag
    e_meta,         \* for every link of the buffer: when it was pushed
    e_pars,         \* for every paragraph closed by an end tag: its links and text
    e_last,         \* the last paragraph start tag: "none" | "open" | "self_closing"
    e_pc,           \* "idle" | "html" | "eof"
    \* ---- one Markdown source file (SpecMarkdown) ----
    md_lines,       \* the lines of the file
    md_i,           \* number of lines read so far
    md_text,        \* the buffer text
    md_line_numbers, \* the vector line_numbers
    md_nl,          \* whether the range of a paragraph includes its final newline
    md_rv,          \* the result of paragraphs()
    md_pc           \* "idle" | "reading" | "done"

collVars == <<colls, hist, owner, ops>>
srcVars == <<sources_path, paragraps_to_sourcefile, bad_links_and_anchors, sources_read,
             stdout>>
pipeVars == <<check_anchors, corpus, todo, acc, pc, broken_links, exit_code, srcVars>>
urlVars == <<u_path, u_raw, u_href, u_ext, u_target, u_report, u_links, u_pc>>
hashVars == <<h_hasher, h_fed, h_out, h_pc>>
extractVars == <<e_em, e_n, e_open, e_since, e_vis, e_meta, e_pars, e_last, e_pc>>
mdVars == <<md_lines, md_i, md_text, md_line_numbers, md_nl, md_rv, md_pc>>
vars == <<collVars, pipeVars, urlVars, hashVars, extractVars, mdVars>>

\* What the steps of one specification leave alone
exceptColl == <<pipeVars, urlVars, hashVars, extractVars, mdVars>>
exceptPipe == <<collVars, urlVars, hashVars, extractVars, mdVars>>
exceptUrl == <<collVars, pipeVars, hashVars, extractVars, mdVars>>
exceptHash == <<collVars, pipeVars, urlVars, extractVars, mdVars>>
exceptExtract == <<collVars, pipeVars, urlVars, hashVars, mdVars>>
exceptMd == <<collVars, pipeVars, urlVars, hashVars, extractVars>>

MdIdle ==
    /\ md_lines = <<>>
    /\ md_i = 0
    /\ md_text = <<>>
    /\ md_line_numbers = <<>>
    /\ md_nl = FALSE
    /\ md_rv = <<>>
    /\ md_pc = "idle"

ExtractIdle ==
    /\ e_em = <<>>
    /\ e_n = 0
    /\ e_open = FALSE
    /\ e_since = 0
    /\ e_vis = <<>>
    /\ e_meta = <<>>
    /\ e_pars = <<>>
    /\ e_last = "none"
    /\ e_pc = "idle"

HashIdle ==
    /\ h_hasher = <<>>
    /\ h_fed = <<>>
    /\ h_out = <<>>
    /\ h_pc = "idle"

UrlIdle ==
    /\ u_path = <<>>
    /\ u_raw = <<>>
    /\ u_href = <<>>
    /\ u_ext = "unset"
    /\ u_target = <<>>
    /\ u_report = <<>>
    /\ u_links = <<>>
    /\ u_pc = "idle"

-----------------------------------------------------------------------------
(* Characters and strings *)

Lower == {"a","b","c","d","e","f","g","h","i","j","k","l","m",
          "n","o","p","q","r","s","t","u","v","w","x","y","z"}
Upper == {"A","B","C","D","E","F","G","H","I","J","K","L","M",
          "N","O","P","Q","R","S","T","U","V","W","X","Y","Z"}
Digit == {"0","1","2","3","4","5","6","7","8","9"}

\* The characters of the model in ASCII order (byte order of the keys).
CharOrder ==
    <<" ","#","%","+",",","-",".","/",
      "0","1","2","3","4","5","6","7","8","9",":","?",
      "A","B","C","D","E","F","G","H","I","J","K","L","M",
      "N","O","P","Q","R","S","T","U","V","W","X","Y","Z","_",
      "a","b","c","d","e","f","g","h","i","j","k","l","m",
      "n","o","p","q","r","s","t","u","v","w","x","y","z">>

Code(c) == CHOOSE i \in 1..Len(CharOrder) : CharOrder[i] = c

\* Lexicographic byte order on strings (a proper prefix sorts first).
RECURSIVE StrLess(_, _)
StrLess(s, t) ==
    IF t = <<>> THEN FALSE
    ELSE IF s = <<>> THEN TRUE
    ELSE IF Head(s) = Head(t) THEN StrLess(Tail(s), Tail(t))
    ELSE Code(Head(s)) < Code(Head(t))

StartsWith(s, p) == Len(s) >= Len(p) /\ SubSeq(s, 1, Len(p)) = p

EndsWithChar(s, c) == s /= <<>> /\ s[Len(s)] = c

\* str::find with a set of characters: 1-based index of the first match, 0 if none.
Find(s, cs) ==
    IF \E i \in 1..Len(s) : s[i] \in cs
    THEN CHOOSE i \in 1..Len(s) : s[i] \in cs /\ \A j \in 1..(i-1) : s[j] \notin cs
    ELSE 0

\* str::rfind of one character: 1-based index of the last match, 0 if none.
RFind(s, c) ==
    IF \E i \in 1..Len(s) : s[i] = c
    THEN CHOOSE i \in 1..Len(s) : s[i] = c /\ \A j \in (i+1)..Len(s) : s[j] /= c
    ELSE 0

\* rel_href.find(..).unwrap_or(rel_href.len()), as the number of bytes kept.
FindOrLen(s, cs) == IF Find(s, cs) = 0 THEN Len(s) ELSE Find(s, cs) - 1

\* base.truncate(base.rfind('/').unwrap_or(0))
TruncateAtLastSlash(base) ==
    IF RFind(base, "/") = 0 THEN <<>> ELSE SubSeq(base, 1, RFind(base, "/") - 1)

\* str::split on one character: the sequence of components (never empty).
RECURSIVE Split(_, _)
Split(s, c) ==
    IF Find(s, {c}) = 0 THEN <<s>>
    ELSE <<SubSeq(s, 1, Find(s, {c}) - 1)>>
         \o Split(SubSeq(s, Find(s, {c}) + 1, Len(s)), c)

IndexHtml == <<"i","n","d","e","x",".","h","t","m","l">>
IndexHtm == <<"i","n","d","e","x",".","h","t","m">>

-----------------------------------------------------------------------------
(* src/src/urls.rs and src/src/collector.rs: external classification *)

SchemeChars == Lower \cup Upper \cup Digit \cup {"+", "-", "."}

\* The loop over url[1..]: the first byte that is not a scheme character decides.
SchemeLoop(url) ==
    LET stop == {i \in 2..Len(url) : url[i] \notin SchemeChars}
    IN  IF stop = {} THEN FALSE
        ELSE url[CHOOSE i \in stop : \A j \in stop : i <= j] = ":"

\* Faulty variant of is_external_link: only the first byte after the letter is
\* looked at.
is_external_link_OneByteScheme(url) ==
    IF url = <<>> THEN FALSE
    ELSE IF StartsWith(url, <<"/", "/">>) THEN TRUE
    ELSE IF Head(url) \notin (Lower \cup Upper) THEN FALSE
    ELSE Len(url) >= 2 /\ url[2] = ":"

is_external_link(url) ==
    IF url = <<>> THEN FALSE
    ELSE IF StartsWith(url, <<"/", "/">>) THEN TRUE
    ELSE IF Head(url) \notin (Lower \cup Upper) THEN FALSE
    ELSE SchemeLoop(url)

\* Faulty variant of is_bad_schema: only protocol-relative URLs are external.
is_bad_schema_ProtocolRelativeOnly(url) ==
    IF url = <<>> THEN FALSE
    ELSE StartsWith(url, <<"/", "/">>)

is_bad_schema(url) ==
    IF url = <<>> THEN FALSE
    ELSE IF StartsWith(url, <<"/", "/">>) THEN TRUE
    ELSE IF ~(Head(url) \in Lower \/ Head(url) \in Upper) THEN FALSE
    ELSE SchemeLoop(url)

-----------------------------------------------------------------------------
(* src/src/html/mod.rs: canonicalization *)

\* Faulty variant of PushComponent: '..' leaves a path of one component alone.
PushComponent_DotDotKeepsFirst(base, component, i, num_slashes) ==
    IF component \in {IndexHtml, IndexHtm} /\ i = num_slashes THEN base
    ELSE IF component = <<>> \/ component = <<".">> THEN base
    ELSE IF component = <<".", ".">>
         THEN (IF RFind(base, "/") = 0 THEN base ELSE TruncateAtLastSlash(base))
    ELSE (IF base /= <<>> THEN Append(base, "/") ELSE base) \o component

\* Faulty variant of PushComponent: an index file name is dropped wherever it stands.
PushComponent_DropsIndexAnywhere(base, component, i, num_slashes) ==
    IF component \in {IndexHtml, IndexHtm} THEN base
    ELSE IF component = <<>> \/ component = <<".">> THEN base
    ELSE IF component = <<".", ".">> THEN TruncateAtLastSlash(base)
    ELSE (IF base /= <<>> THEN Append(base, "/") ELSE base) \o component

\* The loop body of push_and_canonicalize for component number i (0-based).
PushComponent(base, component, i, num_slashes) ==
    IF component \in {IndexHtml, IndexHtm} /\ i = num_slashes THEN base
    ELSE IF component = <<>> \/ component = <<".">> THEN base
    ELSE IF component = <<".", ".">> THEN TruncateAtLastSlash(base)
    ELSE (IF base /= <<>> THEN Append(base, "/") ELSE base) \o component

RECURSIVE PushComponents(_, _, _, _)
PushComponents(base, comps, i, num_slashes) ==
    IF comps = <<>> THEN base
    ELSE PushComponents(PushComponent(base, Head(comps), i, num_slashes),
                        Tail(comps), i + 1, num_slashes)

\* Faulty variant of push_and_canonicalize: an empty path is treated like a
\* relative one, the base is truncated at its last slash.
push_and_canonicalize_EmptyTruncates(base, path) ==
    IF is_external_link(path) THEN path
    ELSE LET start == IF StartsWith(path, <<"/">>) THEN <<>>
                      ELSE TruncateAtLastSlash(base)
             comps == Split(path, "/")
         IN  PushComponents(start, comps, 0, Len(comps) - 1)

\* Faulty variant of push_and_canonicalize: a relative path is appended to the
\* whole base, the base is not truncated at its last slash.
push_and_canonicalize_KeepsBase(base, path) ==
    IF is_external_link(path) THEN path
    ELSE IF path = <<>>
         THEN (IF EndsWithChar(base, "/") THEN SubSeq(base, 1, Len(base) - 1) ELSE base)
    ELSE LET start == IF StartsWith(path, <<"/">>) THEN <<>> ELSE base
             comps == Split(path, "/")
         IN  PushComponents(start, comps, 0, Len(comps) - 1)

push_and_canonicalize(base, path) ==
    IF is_external_link(path) THEN path
    ELSE IF path = <<>>
         THEN (IF EndsWithChar(base, "/") THEN SubSeq(base, 1, Len(base) - 1) ELSE base)
    ELSE LET start == IF StartsWith(path, <<"/">>) THEN <<>>
                      ELSE TruncateAtLastSlash(base)
             comps == Split(path, "/")
         IN  PushComponents(start, comps, 0, Len(comps) - 1)

HexDigit == Digit \cup {"A","B","C","D","E","F","a","b","c","d","e","f"}

\* percent_decode_str turns every %XX with two hex digits into the byte XX.
\* The model's strings hold ASCII only (decode_utf8 then always succeeds), and
\* of the escapes only those whose byte is a character of the model.
DecodeByte(h1, h2) ==
    CASE h1 = "2" /\ h2 \in {"F", "f"} -> "/"
      [] h1 = "2" /\ h2 \in {"E", "e"} -> "."
      [] h1 = "2" /\ h2 = "3" -> "#"
      [] h1 = "2" /\ h2 = "0" -> " "
      [] h1 = "3" /\ h2 \in {"A", "a"} -> ":"
      [] h1 = "3" /\ h2 \in {"F", "f"} -> "?"
      [] h1 = "6" /\ h2 = "1" -> "a"
      [] h1 = "6" /\ h2 = "2" -> "b"

EscapesOfModel ==
    {<<"2","F">>, <<"2","f">>, <<"2","E">>, <<"2","e">>, <<"2","3">>, <<"2","0">>,
     <<"3","A">>, <<"3","a">>, <<"3","F">>, <<"3","f">>, <<"6","1">>, <<"6","2">>}

RECURSIVE try_percent_decode(_)
try_percent_decode(input) ==
    IF input = <<>> THEN <<>>
    ELSE IF /\ Head(input) = "%" /\ Len(input) >= 3
            /\ input[2] \in HexDigit /\ input[3] \in HexDigit
            /\ <<input[2], input[3]>> \in EscapesOfModel
         THEN <<DecodeByte(input[2], input[3])>>
              \o try_percent_decode(SubSeq(input, 4, Len(input)))
    ELSE <<Head(input)>> \o try_percent_decode(Tail(input))

\* Href::without_anchor
without_anchor(href) ==
    IF Find(href, {"#"}) = 0 THEN href ELSE SubSeq(href, 1, Find(href, {"#"}) - 1)

\* Document::new on the path below base_path: [path, href, is_index_html]
DropLast(s) == SubSeq(s, 1, Len(s) - 1)

RECURSIVE JoinWith(_, _)
JoinWith(comps, c) ==
    IF comps = <<>> THEN <<>>
    ELSE IF Len(comps) = 1 THEN Head(comps)
    ELSE Head(comps) \o <<c>> \o JoinWith(Tail(comps), c)

DocumentNew(path) ==
    LET comps == Split(path, "/")
        is_index_html == comps[Len(comps)] \in {IndexHtml, IndexHtm}
    IN  [path |-> path,
         href |-> IF is_index_html THEN JoinWith(DropLast(comps), "/") ELSE path,
         is_index_html |-> is_index_html]

\* The base that Document::join hands to push_and_canonicalize
JoinBase(doc) == IF doc.is_index_html THEN Append(doc.href, "/") ELSE doc.href

\* Faulty variant of DocumentJoin: a fragment of '#' alone is appended too.
DocumentJoin_EmptyFragment(doc, preserve_anchor, rel_href) ==
    LET qs_start == FindOrLen(rel_href, {"?", "#"})
        anchor_start == FindOrLen(rel_href, {"#"})
        base == IF doc.is_index_html THEN Append(doc.href, "/") ELSE doc.href
        href == push_and_canonicalize(base,
                    try_percent_decode(SubSeq(rel_href, 1, qs_start)))
        anchor == SubSeq(rel_href, anchor_start + 1, Len(rel_href))
    IN  IF preserve_anchor /\ Len(anchor) > 0
        THEN href \o try_percent_decode(anchor)
        ELSE href

\* Document::join
DocumentJoin(doc, preserve_anchor, rel_href) ==
    LET qs_start == FindOrLen(rel_href, {"?", "#"})
        anchor_start == FindOrLen(rel_href, {"#"})
        base == IF doc.is_index_html THEN Append(doc.href, "/") ELSE doc.href
        href == push_and_canonicalize(base,
                    try_percent_decode(SubSeq(rel_href, 1, qs_start)))
        anchor == SubSeq(rel_href, anchor_start + 1, Len(rel_href))
    IN  IF preserve_anchor /\ Len(anchor) > 1
        THEN href \o try_percent_decode(anchor)
        ELSE href

-----------------------------------------------------------------------------
(* src/src/collector.rs: BrokenLinkCollector *)

\* Option<P::Paragraph>: None, or a Paragraph with its hash
None == [none |-> TRUE]

\* A Paragraph whose hash is that of the text f1
F1 == [hash |-> <<"f", "1">>]

UsesLink(href, path, paragraph) ==
    [kind |-> "Uses", href |-> href, path |-> path, paragraph |-> paragraph]

DefinesLink(href) == [kind |-> "Defines", href |-> href]

\* LinkState
Defined == [tag |-> "Defined"]
Undefined(links) == [tag |-> "Undefined", links |-> links]

\* Faulty variant of add_usage: a usage of a Defined href starts a new list.
add_usage_AfterDefined(state, link) ==
    IF state.tag = "Undefined"
    THEN Undefined(Append(state.links, <<link.path, link.paragraph>>))
    ELSE Undefined(<<<<link.path, link.paragraph>>>>)

\* LinkState::add_usage
add_usage(state, link) ==
    IF state.tag = "Undefined"
    THEN Undefined(Append(state.links, <<link.path, link.paragraph>>))
    ELSE state

\* Faulty variant of update: the other state is looked at first, and an Undefined
\* other replaces a Defined self.
update_ReplacesDefined(self, other) ==
    IF other.tag = "Defined" THEN Defined
    ELSE IF self.tag = "Defined" THEN other
    ELSE Undefined(self.links \o other.links)

\* Faulty variant of update: a Defined other does not reach an Undefined self.
update_IgnoresOtherDefined(self, other) ==
    IF self.tag = "Defined" THEN self
    ELSE IF other.tag = "Defined" THEN self
    ELSE Undefined(self.links \o other.links)

\* LinkState::update
update(self, other) ==
    IF self.tag = "Defined" THEN self
    ELSE IF other.tag = "Defined" THEN Defined
    ELSE Undefined(self.links \o other.links)

\* PatriciaMap::insert
MapInsert(m, k, v) == [h \in (DOMAIN m) \cup {k} |-> IF h = k THEN v ELSE m[h]]

\* LinkCollector::new
CollectorNew == [links |-> <<>>, used_link_count |-> 0]

\* Faulty variant of IngestUses: the schema test is missing.
IngestUses_NoSchemaTest(self, used_link) ==
    [links |->
        IF used_link.href \in DOMAIN self.links
        THEN [self.links EXCEPT ![used_link.href] = add_usage(@, used_link)]
        ELSE MapInsert(self.links, used_link.href,
                       add_usage(Undefined(<<>>), used_link)),
     used_link_count |-> self.used_link_count + 1]

\* The Uses arm of ingest. The href computed by the "try calling canonicalize"
\* lines is never read, so only the schema test and the upsert remain.
IngestUses(self, used_link) ==
    IF ~is_bad_schema(used_link.href)
    THEN [links |->
            IF used_link.href \in DOMAIN self.links
            THEN [self.links EXCEPT ![used_link.href] = add_usage(@, used_link)]
            ELSE MapInsert(self.links, used_link.href,
                           add_usage(Undefined(<<>>), used_link)),
          used_link_count |-> self.used_link_count + 1]
    ELSE self

\* Faulty variant of IngestDefines: an existing entry is kept.
IngestDefines_KeepsExisting(self, defined_link) ==
    IF defined_link.href \in DOMAIN self.links THEN self
    ELSE [self EXCEPT !.links = MapInsert(self.links, defined_link.href, Defined)]

\* The Defines arm of ingest.
IngestDefines(self, defined_link) ==
    [self EXCEPT !.links = MapInsert(self.links, defined_link.href, Defined)]

\* LinkCollector::ingest
ingest(self, link) ==
    IF link.kind = "Uses" THEN IngestUses(self, link) ELSE IngestDefines(self, link)

\* Faulty variant of MergeEntry: the other collector's state is inserted over self's.
MergeEntry_OverwritesSelf(self, other, href) ==
    IF href \in DOMAIN other.links THEN other.links[href] ELSE self.links[href]

\* The per-href step of merge: every iteration of the loop over other.links
\* reads and writes the entry of its own href only.
MergeEntry(self, other, href) ==
    IF href \in DOMAIN other.links
    THEN (IF href \in DOMAIN self.links
          THEN update(self.links[href], other.links[href])
          ELSE other.links[href])
    ELSE self.links[href]

\* Faulty variant of merge: the other collector's count is not added.
merge_KeepsOwnCount(self, other) ==
    [links |-> [href \in (DOMAIN self.links) \cup (DOMAIN other.links) |->
                    MergeEntry(self, other, href)],
     used_link_count |-> self.used_link_count]

\* Faulty variant of merge: an href that self does not hold is not inserted.
merge_SkipsNewHrefs(self, other) ==
    [links |-> [href \in DOMAIN self.links |-> MergeEntry(self, other, href)],
     used_link_count |-> self.used_link_count + other.used_link_count]

\* LinkCollector::merge
merge(self, other) ==
    [links |-> [href \in (DOMAIN self.links) \cup (DOMAIN other.links) |->
                    MergeEntry(self, other, href)],
     used_link_count |-> self.used_link_count + other.used_link_count]

\* PatriciaMap::iter visits the keys in byte order.
RECURSIVE SortedKeys(_)
SortedKeys(ks) ==
    IF ks = {} THEN <<>>
    ELSE LET k == CHOOSE x \in ks : \A y \in ks \ {x} : StrLess(x, y)
         IN  <<k>> \o SortedKeys(ks \ {k})

\* Faulty variant of Hard404: the href is looked up with its anchor.
Hard404_KeepsAnchor(self, href, anchors) ==
    IF anchors
    THEN ~(href \in DOMAIN self.links /\ self.links[href] = Defined)
    ELSE TRUE

\* hard_404 of the entry under href
Hard404(self, href, anchors) ==
    IF anchors
    THEN ~(/\ without_anchor(href) \in DOMAIN self.links
           /\ self.links[without_anchor(href)] = Defined)
    ELSE TRUE

\* Faulty variant of BrokenLinksOf: one BrokenLink per href instead of one per usage.
BrokenLinksOf_OnePerHref(self, href, anchors) ==
    IF self.links[href].tag = "Undefined" /\ self.links[href].links /= <<>>
    THEN <<[hard_404 |-> Hard404(self, href, anchors),
            href |-> href,
            path |-> self.links[href].links[1][1],
            paragraph |-> self.links[href].links[1][2]]>>
    ELSE <<>>

\* The inner loop of get_broken_links: one BrokenLink per stored usage.
BrokenLinksOf(self, href, anchors) ==
    IF self.links[href].tag = "Undefined"
    THEN [i \in 1..Len(self.links[href].links) |->
            [hard_404 |-> Hard404(self, href, anchors),
             href |-> href,
             path |-> self.links[href].links[i][1],
             paragraph |-> self.links[href].links[i][2]]]
    ELSE <<>>

RECURSIVE BrokenLinksOver(_, _, _)
BrokenLinksOver(self, keys, anchors) ==
    IF keys = <<>> THEN <<>>
    ELSE BrokenLinksOf(self, Head(keys), anchors)
         \o BrokenLinksOver(self, Tail(keys), anchors)

\* Faulty variant of get_broken_links: only the first broken link is returned.
get_broken_links_FirstOnly(self, anchors) ==
    LET all == BrokenLinksOver(self, SortedKeys(DOMAIN self.links), anchors)
    IN  IF all = <<>> THEN <<>> ELSE <<Head(all)>>

\* BrokenLinkCollector::get_broken_links
get_broken_links(self, anchors) ==
    BrokenLinksOver(self, SortedKeys(DOMAIN self.links), anchors)

\* BrokenLinkCollector::used_links_count
used_links_count(self) == self.used_link_count

-----------------------------------------------------------------------------
(* The collector under arbitrary sequences of ingest and merge: three      *)
(* collectors, as the two sides of a reduce step and a third to group with.*)

MaxIngests == 4

Slots == {"A", "B", "C"}

\* Canonical hrefs handed to the collectors: a document, an anchor in it,
\* and an href with a scheme.
HrefB == <<"b">>
HrefBG == <<"b", "#", "g">>
HrefExt == <<"h", ":">>
PoolHrefs == {HrefB, HrefBG, HrefExt}

PathP == <<"p">>
PathQ == <<"q">>

LinkPool ==
    {UsesLink(HrefB, PathP, None),
     UsesLink(HrefBG, PathP, None),
     UsesLink(HrefBG, PathQ, F1),
     UsesLink(HrefExt, PathQ, None),
     DefinesLink(HrefB),
     DefinesLink(HrefBG)}

Live(i) == owner[i] = i

PipeIdle ==
    /\ check_anchors = FALSE
    /\ corpus = <<>>
    /\ todo = {}
    /\ acc = {}
    /\ pc = "idle"
    /\ broken_links = <<>>
    /\ exit_code = -1
    /\ sources_path = None
    /\ paragraps_to_sourcefile = {}
    /\ bad_links_and_anchors = {}
    /\ sources_read = {}
    /\ stdout = <<>>

CollectorInit ==
    /\ colls = [i \in Slots |-> CollectorNew]
    /\ hist = [i \in Slots |-> <<>>]
    /\ owner = [i \in Slots |-> i]
    /\ ops = 0
    /\ PipeIdle
    /\ UrlIdle
    /\ HashIdle
    /\ ExtractIdle
    /\ MdIdle

\* collector.ingest(link) on a live collector
CIngest(i, link) ==
    /\ Live(i)
    /\ ops < MaxIngests
    /\ colls' = [colls EXCEPT ![i] = ingest(@, link)]
    /\ hist' = [hist EXCEPT ![i] = Append(@, link)]
    /\ ops' = ops + 1
    /\ UNCHANGED owner
    /\ UNCHANGED exceptColl

\* colls[i].merge(colls[j]): j is moved into i and is gone afterwards
CMerge(i, j) ==
    /\ i /= j
    /\ Live(i)
    /\ Live(j)
    /\ colls' = [colls EXCEPT ![i] = merge(colls[i], colls[j]), ![j] = CollectorNew]
    /\ hist' = [hist EXCEPT ![i] = hist[i] \o hist[j], ![j] = <<>>]
    /\ owner' = [k \in Slots |-> IF owner[k] = j THEN i ELSE owner[k]]
    /\ UNCHANGED ops
    /\ UNCHANGED exceptColl

CollectorNext ==
    \/ \E i \in Slots, link \in LinkPool : CIngest(i, link)
    \/ \E i \in Slots, j \in Slots : CMerge(i, j)

SpecCollector == CollectorInit /\ [][CollectorNext]_vars

-----------------------------------------------------------------------------
(* Properties of the collector (checked under SpecCollector) *)

RECURSIVE SeqToBag(_)
SeqToBag(seq) ==
    IF seq = <<>> THEN EmptyBag ELSE SetToBag({Head(seq)}) (+) SeqToBag(Tail(seq))

IsDefined(c, h) == h \in DOMAIN c.links /\ c.links[h] = Defined

IsUndefined(c, h) == h \in DOMAIN c.links /\ c.links[h].tag = "Undefined"

\* A slot that no merge has touched.
Pure(i) == \A k \in Slots : owner[k] = i <=> k = i

UsesOf(h, log) == {k \in 1..Len(log) : log[k].kind = "Uses" /\ log[k].href = h}

DefinesOf(h, log) == {k \in 1..Len(log) : log[k].kind = "Defines" /\ log[k].href = h}

\* The usages (path, paragraph) of the Uses(h) in a log, as a bag.
RECURSIVE UsageBag(_, _)
UsageBag(h, log) ==
    IF log = <<>> THEN EmptyBag
    ELSE (IF Head(log).kind = "Uses" /\ Head(log).href = h
          THEN SetToBag({<<Head(log).path, Head(log).paragraph>>})
          ELSE EmptyBag) (+) UsageBag(h, Tail(log))

\* The usages (path, paragraph) reported for h, as a bag.
RECURSIVE ReportedBag(_, _)
ReportedBag(h, report) ==
    IF report = <<>> THEN EmptyBag
    ELSE (IF Head(report).href = h
          THEN SetToBag({<<Head(report).path, Head(report).paragraph>>})
          ELSE EmptyBag) (+) ReportedBag(h, Tail(report))

\* The usages stored under h in a collector, as a bag (empty when Defined or absent).
StoredBag(c, h) ==
    IF IsUndefined(c, h) THEN SeqToBag(c.links[h].links) ELSE EmptyBag

\* C1: once the state of an href is Defined in a collector, it is Defined in
\* whichever collector holds that content after any ingest or merge step,
\* the collector being the receiver of the merge or the one absorbed.
C1_DefinedStaysDefined ==
    [][\A i \in Slots : \A h \in PoolHrefs :
          IsDefined(colls[owner[i]], h) => IsDefined(colls'[owner'[i]], h)]_vars

\* C1 witness: a collector holding a Defined href was absorbed by one that
\* had recorded a use of that href.
C1_Witness ==
    \E j \in Slots : \E h \in PoolHrefs :
        /\ ~Live(j)
        /\ IsDefined(colls[owner[j]], h)
        /\ UsesOf(h, hist[owner[j]]) /= {}
        /\ DefinesOf(h, hist[owner[j]]) /= {}

\* C3: merge(A, B) and merge(B, A) report the same broken links: the same
\* hrefs, the same usages per href and the same hard_404 flags (as a multiset).
C3_MergeCommutes ==
    \A i \in Slots : \A j \in Slots \ {i} : \A ca \in BOOLEAN :
        (Live(i) /\ Live(j)) =>
            SeqToBag(get_broken_links(merge(colls[i], colls[j]), ca))
                = SeqToBag(get_broken_links(merge(colls[j], colls[i]), ca))

\* C3 witness: two live collectors, an href Undefined in both with usages,
\* and an href Defined in one and Undefined in the other.
C3_Witness ==
    \E i \in Slots : \E j \in Slots \ {i} :
        /\ Live(i) /\ Live(j)
        /\ \E h \in PoolHrefs : IsUndefined(colls[i], h) /\ IsUndefined(colls[j], h)
                                /\ colls[i].links[h] /= colls[j].links[h]
        /\ \E h \in PoolHrefs : IsDefined(colls[i], h) /\ IsUndefined(colls[j], h)

\* C4: merge(merge(A, B), C) and merge(A, merge(B, C)) are the same collector:
\* the same state per href, the same usages in the same order, the same count.
C4_MergeAssociates ==
    \A i \in Slots : \A j \in Slots \ {i} : \A k \in Slots \ {i, j} :
        (Live(i) /\ Live(j) /\ Live(k)) =>
            merge(merge(colls[i], colls[j]), colls[k])
                = merge(colls[i], merge(colls[j], colls[k]))

\* C4 witness: three live non-empty collectors that share an href, Defined in
\* one of them and Undefined in another.
C4_Witness ==
    /\ \A i \in Slots : Live(i) /\ DOMAIN colls[i].links /= {}
    /\ \E h \in PoolHrefs : \E i \in Slots : \E j \in Slots \ {i} :
           IsDefined(colls[i], h) /\ IsUndefined(colls[j], h)

\* C5 as stated: in a collector fed by ingests only, an href with a Defines
\* yields no broken link, and every href that is used and never defined is
\* reported.
C5_Original ==
    \A i \in Slots : \A h \in PoolHrefs : \A ca \in BOOLEAN :
        Pure(i) =>
            /\ DefinesOf(h, hist[i]) /= {}
                 => ReportedBag(h, get_broken_links(colls[i], ca)) = EmptyBag
            /\ (UsesOf(h, hist[i]) /= {} /\ DefinesOf(h, hist[i]) = {})
                 => ReportedBag(h, get_broken_links(colls[i], ca)) /= EmptyBag

\* C5 amended: in a collector fed by ingests only, an href with a Defines
\* yields no broken link wherever its Uses stand in the sequence, and an href
\* that is used, never defined and not of an external schema is reported.
C5_OrderIndependent ==
    \A i \in Slots : \A h \in PoolHrefs : \A ca \in BOOLEAN :
        Pure(i) =>
            /\ DefinesOf(h, hist[i]) /= {}
                 => ReportedBag(h, get_broken_links(colls[i], ca)) = EmptyBag
            /\ (UsesOf(h, hist[i]) /= {} /\ DefinesOf(h, hist[i]) = {}
                  /\ ~is_bad_schema(h))
                 => ReportedBag(h, get_broken_links(colls[i], ca)) /= EmptyBag

\* C5 witness: one collector ingested Uses(h), then Defines(h), then Uses(h).
C5_Witness ==
    \E i \in Slots : \E h \in PoolHrefs :
        /\ Pure(i)
        /\ \E a \in UsesOf(h, hist[i]) : \E b \in DefinesOf(h, hist[i]) :
             \E c \in UsesOf(h, hist[i]) : a < b /\ b < c

\* C8 as stated: one BrokenLink per usage stored under each Undefined href and
\* none for a Defined one; for every href never defined, the BrokenLinks are
\* the Uses ingested for it over all merged collectors, with path and fingerprint.
C8_Original ==
    \A i \in Slots : \A h \in PoolHrefs : \A ca \in BOOLEAN :
        Live(i) =>
            /\ ReportedBag(h, get_broken_links(colls[i], ca)) = StoredBag(colls[i], h)
            /\ DefinesOf(h, hist[i]) = {}
                 => ReportedBag(h, get_broken_links(colls[i], ca)) = UsageBag(h, hist[i])

\* C8 amended: as above, the second part for every href that is never defined
\* and is not of an external schema (Uses of an external schema are not stored).
C8_OnePerUsage ==
    \A i \in Slots : \A h \in PoolHrefs : \A ca \in BOOLEAN :
        Live(i) =>
            /\ ReportedBag(h, get_broken_links(colls[i], ca)) = StoredBag(colls[i], h)
            /\ (DefinesOf(h, hist[i]) = {} /\ ~is_bad_schema(h))
                 => ReportedBag(h, get_broken_links(colls[i], ca)) = UsageBag(h, hist[i])

\* C8 witness: a merged collector reports two usages of one href that were
\* ingested into different collectors.
C8_Witness ==
    \E i \in Slots : \E j \in Slots \ {i} : \E h \in PoolHrefs :
        /\ Live(i) /\ owner[j] = i
        /\ DefinesOf(h, hist[i]) = {}
        /\ Cardinality(UsesOf(h, hist[i])) >= 2
        /\ Len(get_broken_links(colls[i], TRUE)) >= 2
        /\ \E a \in 1..Len(get_broken_links(colls[i], TRUE)) :
             \E b \in 1..Len(get_broken_links(colls[i], TRUE)) :
               /\ get_broken_links(colls[i], TRUE)[a].path
                    /= get_broken_links(colls[i], TRUE)[b].path
               /\ get_broken_links(colls[i], TRUE)[a].href = h
               /\ get_broken_links(colls[i], TRUE)[b].href = h

\* The Uses links of a log of ingests
AllUses(log) == {k \in 1..Len(log) : log[k].kind = "Uses"}

\* The Uses links of a log whose href passes the schema test of ingest
CountedUses(log) ==
    {k \in 1..Len(log) : log[k].kind = "Uses" /\ ~is_bad_schema(log[k].href)}

\* C11 as stated: used_link_count (the N of "Checking N links") is the number
\* of Uses links ingested over all merged collectors.
C11_Original ==
    \A i \in Slots :
        Live(i) => used_links_count(colls[i]) = Cardinality(AllUses(hist[i]))

\* C11 amended: used_link_count is the number of Uses links ingested over all
\* merged collectors whose href is not of an external schema; such a Uses adds
\* exactly one (also when its href is Defined), a Uses of an external schema
\* and a Defines add nothing, and merge adds the two counts.
C11_UsedLinkCount ==
    \A i \in Slots :
        Live(i) => used_links_count(colls[i]) = Cardinality(CountedUses(hist[i]))

\* C11 witness: a merged collector whose count is 2, one Uses ingested into
\* each side of the merge, one of them after the Defines of its href.
C11_Witness ==
    \E i \in Slots : \E j \in Slots \ {i} : \E h \in PoolHrefs :
        /\ Live(i) /\ owner[j] = i
        /\ used_links_count(colls[i]) = 2
        /\ Len(hist[i]) = 4
        /\ hist[i][1].kind = "Defines" /\ hist[i][1].href = h
        /\ hist[i][2].kind = "Uses" /\ hist[i][2].href = h
        /\ hist[i][3].kind = "Uses" /\ hist[i][3].href = HrefExt
        /\ hist[i][4].kind = "Uses" /\ ~is_bad_schema(hist[i][4].href)

\* The number of usages a collector stores, over all hrefs
RECURSIVE StoredOver(_, _)
StoredOver(c, keys) ==
    IF keys = <<>> THEN 0
    ELSE (IF c.links[Head(keys)].tag = "Undefined"
          THEN Len(c.links[Head(keys)].links) ELSE 0) + StoredOver(c, Tail(keys))

StoredUsages(c) == StoredOver(c, SortedKeys(DOMAIN c.links))

\* The Uses of a log that are stored at its end: not of an external schema,
\* and without a Defines of their href anywhere in the log
PendingUses(log) ==
    {k \in CountedUses(log) : DefinesOf(log[k].href, log) = {}}

\* C23: usages are stored only under hrefs whose state is Undefined. An href
\* with a Defines among the ingests of the merged collectors is Defined and
\* holds no usage, whether its Uses came before or after the Defines, by
\* ingest or by merge; the usages stored are those of the hrefs never defined.
C23_UsagesOnlyUndefined ==
    \A i \in Slots :
        Live(i) =>
            /\ \A h \in DOMAIN colls[i].links :
                /\ colls[i].links[h].tag \in {"Defined", "Undefined"}
                /\ DefinesOf(h, hist[i]) /= {} =>
                        /\ colls[i].links[h] = Defined
                        /\ "links" \notin DOMAIN colls[i].links[h]
                /\ DefinesOf(h, hist[i]) = {} => colls[i].links[h].tag = "Undefined"
            /\ StoredUsages(colls[i]) = Cardinality(PendingUses(hist[i]))

\* C23 witness: a collector with usages of h absorbed one where h is Defined,
\* then ingested another Uses(h); it stores nothing.
C23_Witness ==
    \E i \in Slots : \E j \in Slots \ {i} : \E h \in PoolHrefs :
        /\ Live(i) /\ owner[j] = i
        /\ Len(hist[i]) = 4
        /\ hist[i][1].kind = "Uses" /\ hist[i][1].href = h
        /\ hist[i][2].kind = "Uses" /\ hist[i][2].href = h
        /\ hist[i][3] = DefinesLink(h)
        /\ hist[i][4].kind = "Uses" /\ hist[i][4].href = h
        /\ colls[i].links[h] = Defined
        /\ StoredUsages(colls[i]) = 0

-----------------------------------------------------------------------------
(* src/src/html/parser.rs and src/src/main.rs: extraction and the driver *)

MaxLinks == 2
NumWorkers == 2

\* str::trim on the model's only whitespace character
RECURSIVE TrimStart(_)
TrimStart(s) == IF s /= <<>> /\ Head(s) = " " THEN TrimStart(Tail(s)) ELSE s

RECURSIVE TrimEnd(_)
TrimEnd(s) == IF s /= <<>> /\ s[Len(s)] = " " THEN TrimEnd(DropLast(s)) ELSE s

try_normalize_href_value(input) == TrimEnd(TrimStart(input))

\* HyperlinkEmitter::extract_used_link; the fingerprint is the one the
\* paragraph end tag assigns to the link afterwards (None outside a paragraph).
extract_used_link(doc, anchors, attr) ==
    <<UsesLink(DocumentJoin(doc, anchors, try_normalize_href_value(attr.value)),
               doc.path, attr.paragraph)>>

\* Faulty variant of extract_anchor_def: the value is joined without the '#'.
extract_anchor_def_NoHash(doc, anchors, attr) ==
    IF anchors
    THEN <<DefinesLink(DocumentJoin(doc, anchors, try_normalize_href_value(attr.value)))>>
    ELSE <<>>

\* HyperlinkEmitter::extract_anchor_def
extract_anchor_def(doc, anchors, attr) ==
    IF anchors
    THEN <<DefinesLink(DocumentJoin(doc, anchors,
                           <<"#">> \o try_normalize_href_value(attr.value)))>>
    ELSE <<>>

\* HyperlinkEmitter::flush_old_attribute, for the attributes of a document
\* that bear links: (a, href) and (_, id).
flush_old_attribute(doc, anchors, attr) ==
    IF attr.name = "href" THEN extract_used_link(doc, anchors, attr)
    ELSE IF attr.name = "id" THEN extract_anchor_def(doc, anchors, attr)
    ELSE <<>>

\* Document::links: the link buffer after the tokenizer has run over the content
RECURSIVE DocumentLinks(_, _, _)
DocumentLinks(doc, anchors, content) ==
    IF content = <<>> THEN <<>>
    ELSE flush_old_attribute(doc, anchors, Head(content))
         \o DocumentLinks(doc, anchors, Tail(content))

\* Path::extension of the last component (none: the empty string)
Extension(path) ==
    LET comps == Split(path, "/")
        name == comps[Len(comps)]
    IN  IF RFind(name, ".") <= 1 THEN <<>>
        ELSE SubSeq(name, RFind(name, ".") + 1, Len(name))

HTML_FILES == {<<"h","t","m">>, <<"h","t","m","l">>}

IsHtmlFile(path) == Extension(path) \in HTML_FILES

RECURSIVE IngestAll(_, _)
IngestAll(collector, links) ==
    IF links = <<>> THEN collector
    ELSE IngestAll(ingest(collector, Head(links)), Tail(links))

\* The identity of try_fold and try_reduce
FoldIdentity ==
    [collector |-> CollectorNew, documents_count |-> 0, file_count |-> 0,
     files |-> <<>>, blocks |-> {}, ingested |-> <<>>]

\* The calls collector.ingest(link) of the closure for the entry path, one
\* after the other. The field ingested records the calls (the entry and the
\* link of each, in order); the program has no such field.
RECURSIVE IngestEach(_, _, _)
IngestEach(s, path, links) ==
    IF links = <<>> THEN s
    ELSE IngestEach([collector |-> ingest(s.collector, Head(links)),
                     ingested |-> Append(s.ingested, [path |-> path, link |-> Head(links)])],
                    path, Tail(links))

\* Faulty variant of FoldEntry: only HTML documents define their own href.
FoldEntry_DefinesHtmlOnly(a, path, anchors, content) ==
    LET document == DocumentNew(path)
        all == IngestEach([collector |-> a.collector, ingested |-> a.ingested], path,
                          <<DefinesLink(document.href)>>
                              \o DocumentLinks(document, anchors, content))
    IN  IF ~IsHtmlFile(path)
        THEN [a EXCEPT !.file_count = @ + 1, !.files = Append(@, path),
                        !.blocks = {Append(a.files, path)}]
        ELSE [collector |-> all.collector,
              documents_count |-> a.documents_count + 1,
              file_count |-> a.file_count + 1,
              files |-> Append(a.files, path),
              blocks |-> {Append(a.files, path)},
              ingested |-> all.ingested]

\* Faulty variant of FoldEntry: the document's own href is defined after its
\* links are ingested.
FoldEntry_DefinesLast(a, path, anchors, content) ==
    LET document == DocumentNew(path)
        links == IF IsHtmlFile(path) THEN DocumentLinks(document, anchors, content) ELSE <<>>
        all == IngestEach([collector |-> a.collector, ingested |-> a.ingested], path,
                          links \o <<DefinesLink(document.href)>>)
    IN  [collector |-> all.collector,
         documents_count |-> a.documents_count + (IF IsHtmlFile(path) THEN 1 ELSE 0),
         file_count |-> a.file_count + 1,
         files |-> Append(a.files, path),
         blocks |-> {Append(a.files, path)},
         ingested |-> all.ingested]

\* The try_fold closure on one entry whose document can be read. The fields
\* files (the entries folded, in order) and blocks (the entries of each fold
\* accumulator reduced into this one) record the history; the program has neither.
FoldEntry(a, path, anchors, content) ==
    LET document == DocumentNew(path)
        defined == IngestEach([collector |-> a.collector, ingested |-> a.ingested], path,
                              <<DefinesLink(document.href)>>)
        all == IngestEach(defined, path, DocumentLinks(document, anchors, content))
    IN  IF ~IsHtmlFile(path)
        THEN [collector |-> defined.collector,
              documents_count |-> a.documents_count,
              file_count |-> a.file_count + 1,
              files |-> Append(a.files, path),
              blocks |-> {Append(a.files, path)},
              ingested |-> defined.ingested]
        ELSE [collector |-> all.collector,
              documents_count |-> a.documents_count + 1,
              file_count |-> a.file_count + 1,
              files |-> Append(a.files, path),
              blocks |-> {Append(a.files, path)},
              ingested |-> all.ingested]

\* The closure up to the `?` of document.links on an entry whose document
\* cannot be read: the Defines is ingested and the file counted, then the
\* error leaves the closure.
FoldEntryFailing(a, path) ==
    LET document == DocumentNew(path)
        defined == IngestEach([collector |-> a.collector, ingested |-> a.ingested], path,
                              <<DefinesLink(document.href)>>)
    IN  [collector |-> defined.collector,
         documents_count |-> a.documents_count,
         file_count |-> a.file_count + 1,
         files |-> a.files,
         blocks |-> a.blocks,
         ingested |-> defined.ingested]

\* Faulty variant of ReduceOp: the counts of the right side are dropped.
ReduceOp_DropsRightCounts(a, b) ==
    [collector |-> merge(a.collector, b.collector),
     documents_count |-> a.documents_count,
     file_count |-> a.file_count,
     files |-> a.files \o b.files,
     blocks |-> a.blocks \cup b.blocks,
     ingested |-> a.ingested \o b.ingested]

\* The try_reduce closure
ReduceOp(a, b) ==
    [collector |-> merge(a.collector, b.collector),
     documents_count |-> a.documents_count + b.documents_count,
     file_count |-> a.file_count + b.file_count,
     files |-> a.files \o b.files,
     blocks |-> a.blocks \cup b.blocks,
     ingested |-> a.ingested \o b.ingested]

\* Faulty variant of ExitCodeOf: bad anchors count as bad links.
ExitCodeOf_AnchorsAsLinks(report) == IF report /= <<>> THEN 1 ELSE 0

\* The exit status check_links ends with
ExitCodeOf(report) ==
    IF \E k \in 1..Len(report) : report[k].hard_404 THEN 1
    ELSE IF \E k \in 1..Len(report) : ~report[k].hard_404 THEN 2
    ELSE 0

\* ---- the site ----

FileIndex == IndexHtml
FileB == <<"b", ".", "h", "t", "m", "l">>
FileTxt == <<"f", ".", "t", "x", "t">>
Files == {FileIndex, FileB, FileTxt}

Attr(name, value, paragraph) == [name |-> name, value |-> value, paragraph |-> paragraph]

\* What index.html may contain: a link to an anchor of b.html, a link to a
\* missing document (inside a paragraph), a link to the non-HTML file.
AttrsOfIndex ==
    {Attr("href", <<"b", ".", "h", "t", "m", "l", "#", "g">>, None),
     Attr("href", <<" ", "m">>, F1),
     Attr("href", <<".", "/", "f", ".", "t", "x", "t">>, None)}

\* What b.html may contain: the anchor g, a link to the same missing
\* document, a link with a scheme and a fragment, a protocol-relative link.
AttrsOfB ==
    {Attr("id", <<"g">>, None),
     Attr("href", <<"m">>, None),
     Attr("href", <<"h", ":", "x", "#", "g">>, None),
     Attr("href", <<"/", "/", "x">>, None)}

RECURSIVE SeqsUpTo(_, _)
SeqsUpTo(S, n) ==
    IF n = 0 THEN {<<>>}
    ELSE SeqsUpTo(S, n - 1)
         \cup {Append(q, x) : q \in {r \in SeqsUpTo(S, n - 1) : Len(r) = n - 1}, x \in S}

Contents(path) ==
    IF path = FileIndex THEN SeqsUpTo(AttrsOfIndex, MaxLinks)
    ELSE IF path = FileB THEN SeqsUpTo(AttrsOfB, MaxLinks)
    ELSE {<<>>}

\* The content as the extractor of main sees it: check_links runs with the
\* NoopParagraphWalker unless a sources path is given, and finish_paragraph
\* of that walker is None.
Walked(content, get_paragraphs) ==
    [i \in 1..Len(content) |->
        IF get_paragraphs THEN content[i] ELSE [content[i] EXCEPT !.paragraph = None]]

CollIdle ==
    /\ colls = [i \in Slots |-> CollectorNew]
    /\ hist = [i \in Slots |-> <<>>]
    /\ owner = [i \in Slots |-> i]
    /\ ops = 0

\* walk_files fails: the directory cannot be enumerated
WalkFails ==
    /\ pc = "scan"
    /\ todo = Files
    /\ acc = {}
    /\ pc' = "failed"
    /\ exit_code' = 1
    /\ UNCHANGED <<check_anchors, corpus, todo, acc, broken_links>>
    /\ UNCHANGED srcVars
    /\ UNCHANGED exceptPipe

\* A worker starts a new accumulator from the fold identity with one entry.
FoldFirst(path) ==
    /\ pc = "scan"
    /\ path \in todo
    /\ Cardinality(acc) < NumWorkers
    /\ acc' = acc \cup {FoldEntry(FoldIdentity, path, check_anchors, Walked(corpus[path], sources_path /= None))}
    /\ todo' = todo \ {path}
    /\ UNCHANGED <<check_anchors, corpus, pc, broken_links, exit_code>>
    /\ UNCHANGED srcVars
    /\ UNCHANGED exceptPipe

\* A worker folds one more entry into its accumulator.
FoldNext(a, path) ==
    /\ pc = "scan"
    /\ path \in todo
    /\ a \in acc
    /\ acc' = (acc \ {a}) \cup {FoldEntry(a, path, check_anchors, Walked(corpus[path], sources_path /= None))}
    /\ todo' = todo \ {path}
    /\ UNCHANGED <<check_anchors, corpus, pc, broken_links, exit_code>>
    /\ UNCHANGED srcVars
    /\ UNCHANGED exceptPipe

\* Faulty variant of FoldFails: the document that cannot be read is skipped.
FoldFails_Skips(a, path) ==
    /\ pc = "scan"
    /\ path \in todo
    /\ IsHtmlFile(path)
    /\ a \in acc \/ (a = FoldIdentity /\ Cardinality(acc) < NumWorkers)
    /\ todo' = todo \ {path}
    /\ UNCHANGED <<check_anchors, corpus, acc, pc, broken_links, exit_code>>
    /\ UNCHANGED srcVars
    /\ UNCHANGED exceptPipe

\* Document::links fails to open or read an HTML document: the error leaves
\* the fold and the reduce, and main returns it.
FoldFails(a, path) ==
    /\ pc = "scan"
    /\ path \in todo
    /\ IsHtmlFile(path)
    /\ a \in acc \/ (a = FoldIdentity /\ Cardinality(acc) < NumWorkers)
    /\ acc' = (acc \ {a}) \cup {FoldEntryFailing(a, path)}
    /\ pc' = "failed"
    /\ exit_code' = 1
    /\ UNCHANGED <<check_anchors, corpus, todo, broken_links>>
    /\ UNCHANGED srcVars
    /\ UNCHANGED exceptPipe

\* try_reduce combines two accumulators whose folds are complete.
Reduce(a, b) ==
    /\ pc = "scan"
    /\ todo = {}
    /\ a \in acc
    /\ b \in acc
    /\ a /= b
    /\ acc' = (acc \ {a, b}) \cup {ReduceOp(a, b)}
    /\ UNCHANGED <<check_anchors, corpus, todo, pc, broken_links, exit_code>>
    /\ UNCHANGED srcVars
    /\ UNCHANGED exceptPipe

\* try_reduce combines an accumulator with the reduce identity, on either side.
ReduceIdentity(a, left) ==
    /\ pc = "scan"
    /\ todo = {}
    /\ a \in acc
    /\ acc' = (acc \ {a})
                \cup {IF left THEN ReduceOp(FoldIdentity, a)
                      ELSE ReduceOp(a, FoldIdentity)}
    /\ UNCHANGED <<check_anchors, corpus, todo, pc, broken_links, exit_code>>
    /\ UNCHANGED srcVars
    /\ UNCHANGED exceptPipe

-----------------------------------------------------------------------------
(* Properties of the pipeline (checked under Spec) *)

\* The accumulator the reduce ended with.
Final == CHOOSE a \in acc : TRUE

\* One collector ingesting all documents one after the other, in the order
\* of the enumeration.
RECURSIVE FoldSequentially(_, _)
FoldSequentially(a, paths) ==
    IF paths = <<>> THEN a
    ELSE FoldSequentially(FoldEntry(a, Head(paths), check_anchors,
                                    Walked(corpus[Head(paths)], sources_path /= None)),
                          Tail(paths))

Sequential == FoldSequentially(FoldIdentity, SortedKeys(Files))

\* The raw hrefs of the links of a document, trimmed as the extractor trims them.
RawHrefs(path) ==
    {try_normalize_href_value(corpus[path][k].value) :
        k \in {n \in 1..Len(corpus[path]) : corpus[path][n].name = "href"}}

\* C2: however the documents were partitioned among the accumulators, in
\* whatever order they were folded and reduced, the broken links (href,
\* source path, fingerprint, hard_404) are, as a multiset, those of one
\* collector that ingests all documents sequentially.
C2_PartitionIndependent ==
    pc = "exited" =>
        SeqToBag(broken_links) = SeqToBag(get_broken_links(Sequential.collector, check_anchors))

\* C2 witness: b.html and index.html were folded by different accumulators,
\* both used the same missing href, the reduce put them in another order
\* than the enumeration's, and the report has both usages.
C2_Witness ==
    /\ pc = "exited"
    /\ Final.files /= SortedKeys(Files)
    /\ \E x \in Final.blocks : \E y \in Final.blocks \ {x} :
         /\ \E n \in 1..Len(x) : x[n] = FileB
         /\ \E n \in 1..Len(y) : y[n] = FileIndex
    /\ \E a \in 1..Len(broken_links) : \E b \in 1..Len(broken_links) :
         /\ a < b
         /\ broken_links[a].href = broken_links[b].href
         /\ broken_links[a].path = FileB
         /\ broken_links[b].path = FileIndex

\* C6: after a scan without error, the canonical href of every enumerated
\* file, HTML or not, is Defined in the final collector.
C6_SelfDefinition ==
    pc = "exited" =>
        \A path \in Files : IsDefined(Final.collector, DocumentNew(path).href)

\* C6 witness: the run ended, and a link to the non-HTML file was ingested
\* before the file itself was.
C6_Witness ==
    /\ pc = "exited"
    /\ Final.files = <<FileIndex, FileB, FileTxt>>
    /\ \E k \in 1..Len(corpus[FileIndex]) :
         DocumentJoin(DocumentNew(FileIndex), check_anchors,
                      try_normalize_href_value(corpus[FileIndex][k].value))
            = DocumentNew(FileTxt).href

\* C7: a link whose raw href is external (protocol-relative or with a scheme)
\* never has an Undefined entry in any collector and is in no report.
C7_ExternalExcluded ==
    \A path \in Files : \A raw \in RawHrefs(path) :
        is_external_link(raw) =>
            /\ \A a \in acc :
                 ~IsUndefined(a.collector,
                              DocumentJoin(DocumentNew(path), check_anchors, raw))
            /\ \A k \in 1..Len(broken_links) :
                 broken_links[k].href
                    /= DocumentJoin(DocumentNew(path), check_anchors, raw)

\* C7 witness: the run ended with a non-empty report over a site that has a
\* link with a scheme and a protocol-relative link.
C7_Witness ==
    /\ pc = "exited"
    /\ broken_links /= <<>>
    /\ \E raw \in RawHrefs(FileB) : is_external_link(raw) /\ StartsWith(raw, <<"/", "/">>)
    /\ \E raw \in RawHrefs(FileB) : is_external_link(raw) /\ ~StartsWith(raw, <<"/", "/">>)

\* C9: with anchor checking, hard_404 of a broken link is true exactly when
\* its href without the fragment is not Defined, so that a link to a missing
\* fragment of an existing document is a bad anchor; without anchor checking
\* hard_404 is true for every broken link.
C9_Hard404 ==
    pc = "exited" =>
        \A k \in 1..Len(broken_links) :
            /\ check_anchors =>
                 (broken_links[k].hard_404
                    <=> ~IsDefined(Final.collector, without_anchor(broken_links[k].href)))
            /\ (check_anchors
                  /\ \E path \in Files :
                        DocumentNew(path).href = without_anchor(broken_links[k].href))
                 => ~broken_links[k].hard_404
            /\ ~check_anchors => broken_links[k].hard_404

\* C9 witness: a report with a bad anchor on an existing document and a
\* hard 404.
C9_Witness ==
    /\ pc = "exited"
    /\ check_anchors
    /\ \E k \in 1..Len(broken_links) :
         /\ ~broken_links[k].hard_404
         /\ broken_links[k].href = FileB \o <<"#", "g">>
    /\ \E k \in 1..Len(broken_links) : broken_links[k].hard_404

\* C10 as stated: the process exits with 1 iff a broken link is a hard 404,
\* with 2 iff there is a bad anchor and no hard 404, with 0 iff there is no
\* broken link.
C10_Original ==
    exit_code /= -1 =>
        /\ exit_code = 1 <=> \E k \in 1..Len(broken_links) : broken_links[k].hard_404
        /\ exit_code = 2 <=> /\ \A k \in 1..Len(broken_links) : ~broken_links[k].hard_404
                             /\ broken_links /= <<>>
        /\ exit_code = 0 <=> broken_links = <<>>

\* C10 amended: when the scan completes without error, the exit code is 1
\* iff a broken link is a hard 404, 2 iff there is a bad anchor and no hard
\* 404, 0 iff there is no broken link; a run that fails with an I/O error
\* exits with 1 as well.
C10_ExitCodes ==
    /\ pc = "exited" =>
        /\ exit_code = 1 <=> \E k \in 1..Len(broken_links) : broken_links[k].hard_404
        /\ exit_code = 2 <=> /\ \A k \in 1..Len(broken_links) : ~broken_links[k].hard_404
                             /\ broken_links /= <<>>
        /\ exit_code = 0 <=> broken_links = <<>>
    /\ pc = "failed" => exit_code = 1
    /\ pc = "scan" => exit_code = -1

\* C10 witness: a run that exits with 2, its only broken link a bad anchor.
C10_Witness ==
    /\ pc = "exited"
    /\ exit_code = 2
    /\ Len(broken_links) = 1

RECURSIVE Flatten(_)
Flatten(ts) == IF ts = <<>> THEN <<>> ELSE Head(ts) \o Flatten(Tail(ts))

-----------------------------------------------------------------------------
(* src/src/paragraph.rs: ParagraphWalker and ParagraphHasher (SpecHasher) *)

MaxText == 3

Whitespace == {" ", "\t", "\n", "\r"}

\* str::trim
RECURSIVE TrimWsStart(_)
TrimWsStart(s) == IF s /= <<>> /\ Head(s) \in Whitespace THEN TrimWsStart(Tail(s)) ELSE s

RECURSIVE TrimWsEnd(_)
TrimWsEnd(s) ==
    IF s /= <<>> /\ s[Len(s)] \in Whitespace THEN TrimWsEnd(DropLast(s)) ELSE s

TrimWs(s) == TrimWsEnd(TrimWsStart(s))

\* str::split_whitespace: the maximal runs of non-whitespace, in order
RECURSIVE split_whitespace(_)
split_whitespace(s) ==
    LET t == TrimWsStart(s)
        n == FindOrLen(t, Whitespace)
    IN  IF t = <<>> THEN <<>>
        ELSE <<SubSeq(t, 1, n)>> \o split_whitespace(SubSeq(t, n + 1, Len(t)))

\* blake3::Hasher: update appends to the input, finalize is a function of the
\* whole input since the last reset
HasherNew == <<>>
HasherUpdate(hasher, bytes) == hasher \o bytes
HasherFinalize(hasher) == [hash |-> hasher]

\* ParagraphHasher::update_raw
update_raw(hasher, text) == HasherUpdate(hasher, text)

RECURSIVE UpdateWords(_, _)
UpdateWords(hasher, words) ==
    IF words = <<>> THEN hasher
    ELSE UpdateWords(IF Head(words) /= <<>>
                     THEN update_raw(hasher, TrimWs(Head(words)))
                     ELSE hasher,
                     Tail(words))

\* Faulty variant of WalkerUpdate: the text is trimmed but not split.
WalkerUpdate_TrimOnly(hasher, text) ==
    update_raw(hasher, TrimWs(text))

\* ParagraphWalker::update
WalkerUpdate(hasher, text) ==
    UpdateWords(hasher, split_whitespace(TrimWs(text)))

\* ParagraphHasher::finish_paragraph: the paragraph returned and the hasher after
finish_paragraph(hasher) ==
    [paragraph |-> HasherFinalize(hasher), hasher |-> HasherNew]

\* The texts update is called with: not empty, MaxText characters at most
Chunks == SeqsUpTo({"a", "b", " ", "\n"}, MaxText) \ {<<>>}

\* The number of characters given to update so far
RECURSIVE FedLen(_)
FedLen(out) == IF out = <<>> THEN 0 ELSE Len(Flatten(Head(out).fed)) + FedLen(Tail(out))

HasherInit ==
    /\ h_hasher = HasherNew
    /\ h_fed = <<>>
    /\ h_out = <<>>
    /\ h_pc = "walking"
    /\ CollIdle
    /\ PipeIdle
    /\ UrlIdle
    /\ ExtractIdle
    /\ MdIdle

\* walker.update(text)
HUpdate(text) ==
    /\ h_pc = "walking"
    /\ FedLen(h_out) + Len(Flatten(h_fed)) + Len(text) <= MaxText
    /\ h_hasher' = WalkerUpdate(h_hasher, text)
    /\ h_fed' = Append(h_fed, text)
    /\ UNCHANGED <<h_out, h_pc>>
    /\ UNCHANGED exceptHash

\* walker.finish_paragraph()
HFinish ==
    /\ h_pc = "walking"
    /\ Len(h_out) < MaxText
    /\ h_out' = Append(h_out, [digest |-> finish_paragraph(h_hasher).paragraph,
                               fed |-> h_fed])
    /\ h_hasher' = finish_paragraph(h_hasher).hasher
    /\ h_fed' = <<>>
    /\ UNCHANGED h_pc
    /\ UNCHANGED exceptHash

HasherNext ==
    \/ \E text \in Chunks : HUpdate(text)
    \/ HFinish

SpecHasher == HasherInit /\ [][HasherNext]_vars

\* The bytes of a text that are not whitespace
RECURSIVE StripWhitespace(_)
StripWhitespace(s) ==
    IF s = <<>> THEN <<>>
    ELSE IF Head(s) \in Whitespace THEN StripWhitespace(Tail(s))
    ELSE <<Head(s)>> \o StripWhitespace(Tail(s))

\* C15: the digest finish_paragraph returns is the digest of the non-whitespace
\* bytes given to update since the previous finish_paragraph: two paragraphs
\* whose texts are equal without their whitespace have the same digest however
\* the text was cut into update calls, and the text before the previous
\* finish_paragraph has no influence.
C15_DigestOfNonWhitespace ==
    /\ \A k \in 1..Len(h_out) :
         h_out[k].digest
           = HasherFinalize(HasherUpdate(HasherNew, StripWhitespace(Flatten(h_out[k].fed))))
    /\ \A k \in 1..Len(h_out) : \A l \in 1..Len(h_out) :
         StripWhitespace(Flatten(h_out[k].fed)) = StripWhitespace(Flatten(h_out[l].fed))
            => h_out[k].digest = h_out[l].digest

\* C15 witness: two paragraphs with the same digest, the second one given in
\* two calls and with whitespace; the first paragraph has not changed it.
C15_Witness ==
    /\ Len(h_out) = 2
    /\ h_out[1].fed = <<<<"a">>>>
    /\ h_out[2].fed = <<<<"\n">>, <<"a">>>>
    /\ h_out[1].digest = h_out[2].digest
    /\ h_out[2].digest = HasherFinalize(<<"a">>)

-----------------------------------------------------------------------------
(* src/src/html/parser.rs: HyperlinkEmitter, the callbacks of the tokenizer *)

\* Tag and attribute names are whole strings, attribute values and texts are
\* sequences of characters.
is_paragraph_tag(tag) == tag \in {"p", "li", "dt", "dd"}

\* P::new() of the two walkers main chooses between
WalkerNew(tracking) ==
    IF tracking THEN [kind |-> "ParagraphHasher", hasher |-> HasherNew]
    ELSE [kind |-> "NoopParagraphWalker", hasher |-> HasherNew]

\* P::update: update_raw of NoopParagraphWalker does nothing
PUpdate(walker, text) ==
    IF walker.kind = "ParagraphHasher"
    THEN [walker EXCEPT !.hasher = WalkerUpdate(@, text)]
    ELSE walker

\* P::finish_paragraph: the Option returned (None of NoopParagraphWalker)
PFinishValue(walker) ==
    IF walker.kind = "ParagraphHasher" THEN finish_paragraph(walker.hasher).paragraph
    ELSE None

\* P::finish_paragraph: the walker afterwards
PFinishWalker(walker) ==
    IF walker.kind = "ParagraphHasher"
    THEN [walker EXCEPT !.hasher = finish_paragraph(@).hasher]
    ELSE walker

\* The emitter links_from_read builds; get_paragraphs is the argument that
\* extract_html_links passes (sources_path.is_some()).
EmitterNew(document, anchors, get_paragraphs) ==
    [paragraph_walker |-> WalkerNew(get_paragraphs),
     document |-> document,
     link_buf |-> <<>>,
     in_paragraph |-> FALSE,
     last_paragraph_i |-> 0,
     get_paragraphs |-> get_paragraphs,
     current_tag_name |-> "",
     current_attribute_name |-> "",
     current_attribute_value |-> <<>>,
     last_start_tag |-> "",
     current_tag_is_closing |-> FALSE,
     check_anchors |-> anchors]

\* Faulty variant of SrcsetValues: every token of a candidate is taken.
RECURSIVE SrcsetValues_AllTokens(_)
SrcsetValues_AllTokens(candidates) ==
    IF candidates = <<>> THEN <<>>
    ELSE split_whitespace(Head(candidates)) \o SrcsetValues_AllTokens(Tail(candidates))

\* The first whitespace-separated token of every candidate that has one
RECURSIVE SrcsetValues(_)
SrcsetValues(candidates) ==
    IF candidates = <<>> THEN <<>>
    ELSE LET words == split_whitespace(Head(candidates))
         IN  (IF words /= <<>> /\ Head(words) /= <<>> THEN <<Head(words)>> ELSE <<>>)
             \o SrcsetValues(Tail(candidates))

RECURSIVE SrcsetLinks(_, _, _)
SrcsetLinks(doc, anchors, values) ==
    IF values = <<>> THEN <<>>
    ELSE <<UsesLink(DocumentJoin(doc, anchors, Head(values)), doc.path, None)>>
         \o SrcsetLinks(doc, anchors, Tail(values))

\* HyperlinkEmitter::extract_used_link_srcset: the links pushed
extract_used_link_srcset(doc, anchors, attr) ==
    SrcsetLinks(doc, anchors, SrcsetValues(Split(TrimWs(attr.value), ",")))

\* HyperlinkEmitter::flush_old_attribute on the emitter
FlushOldAttribute(self) ==
    LET tag == self.current_tag_name
        name == self.current_attribute_name
        attr == Attr(name, self.current_attribute_value, None)
        doc == self.document
        anchors == self.check_anchors
        pushed ==
            IF tag \in {"link", "area", "a"} /\ name = "href"
                THEN extract_used_link(doc, anchors, attr)
            ELSE IF tag = "a" /\ name = "name"
                THEN extract_anchor_def(doc, anchors, attr)
            ELSE IF tag \in {"img", "script", "iframe"} /\ name = "src"
                THEN extract_used_link(doc, anchors, attr)
            ELSE IF tag = "img" /\ name = "srcset"
                THEN extract_used_link_srcset(doc, anchors, attr)
            ELSE IF tag = "object" /\ name = "data"
                THEN extract_used_link(doc, anchors, attr)
            ELSE IF name = "id"
                THEN extract_anchor_def(doc, anchors, attr)
            ELSE <<>>
    IN  [self EXCEPT !.link_buf = @ \o pushed,
                     !.current_attribute_name = "",
                     !.current_attribute_value = <<>>]

\* Faulty variant of emit_string: the text goes to the hasher as it is.
emit_string_Raw(self, c) ==
    IF self.get_paragraphs /\ self.in_paragraph
    THEN [self EXCEPT !.paragraph_walker.hasher = update_raw(@, c)]
    ELSE self

emit_string(self, c) ==
    IF self.get_paragraphs /\ self.in_paragraph
    THEN [self EXCEPT !.paragraph_walker = PUpdate(@, c)]
    ELSE self

init_start_tag(self) ==
    [self EXCEPT !.current_tag_name = "", !.current_tag_is_closing = FALSE]

init_end_tag(self) ==
    [self EXCEPT !.current_tag_name = "", !.current_tag_is_closing = TRUE]

\* Faulty variant of SetParagraphs: every link of the buffer is updated.
SetParagraphs_WholeBuffer(link_buf, from, paragraph) ==
    [i \in 1..Len(link_buf) |->
        IF link_buf[i].kind = "Uses"
        THEN [link_buf[i] EXCEPT !.paragraph = paragraph]
        ELSE link_buf[i]]

\* The loop of emit_current_tag over link_buf[last_paragraph_i..]
SetParagraphs(link_buf, from, paragraph) ==
    [i \in 1..Len(link_buf) |->
        IF i > from /\ link_buf[i].kind = "Uses"
        THEN [link_buf[i] EXCEPT !.paragraph = paragraph]
        ELSE link_buf[i]]

\* Faulty variant of emit_current_tag: the end tag of a paragraph leaves the
\* emitter in paragraph mode.
emit_current_tag_StaysInParagraph(self) ==
    LET s == FlushOldAttribute(self)
        tag == s.current_tag_name
    IN  IF ~s.current_tag_is_closing
        THEN IF is_paragraph_tag(tag)
             THEN [s EXCEPT !.last_start_tag = tag,
                            !.in_paragraph = TRUE,
                            !.last_paragraph_i = Len(s.link_buf),
                            !.paragraph_walker = PFinishWalker(@),
                            !.current_tag_name = ""]
             ELSE [s EXCEPT !.last_start_tag = tag, !.current_tag_name = ""]
        ELSE IF is_paragraph_tag(tag)
             THEN [s EXCEPT !.last_start_tag = "",
                            !.link_buf =
                                IF s.in_paragraph
                                THEN SetParagraphs(@, s.last_paragraph_i,
                                                   PFinishValue(s.paragraph_walker))
                                ELSE @,
                            !.last_paragraph_i = Len(s.link_buf),
                            !.paragraph_walker = PFinishWalker(@),
                            !.current_tag_name = ""]
             ELSE [s EXCEPT !.last_start_tag = "", !.current_tag_name = ""]

\* Faulty variant of emit_current_tag: a paragraph start tag does not reset
\* the fingerprinter.
emit_current_tag_NoReset(self) ==
    LET s == FlushOldAttribute(self)
        tag == s.current_tag_name
    IN  IF ~s.current_tag_is_closing
        THEN IF is_paragraph_tag(tag)
             THEN [s EXCEPT !.last_start_tag = tag,
                            !.in_paragraph = TRUE,
                            !.last_paragraph_i = Len(s.link_buf),
                            !.current_tag_name = ""]
             ELSE [s EXCEPT !.last_start_tag = tag, !.current_tag_name = ""]
        ELSE IF is_paragraph_tag(tag)
             THEN [s EXCEPT !.last_start_tag = "",
                            !.link_buf =
                                IF s.in_paragraph
                                THEN SetParagraphs(@, s.last_paragraph_i,
                                                   PFinishValue(s.paragraph_walker))
                                ELSE @,
                            !.in_paragraph = FALSE,
                            !.last_paragraph_i = Len(s.link_buf),
                            !.paragraph_walker = PFinishWalker(@),
                            !.current_tag_name = ""]
             ELSE [s EXCEPT !.last_start_tag = "", !.current_tag_name = ""]

\* Faulty variant of emit_current_tag: a paragraph start tag sets
\* last_paragraph_i to the start of the link buffer.
emit_current_tag_FromStart(self) ==
    LET s == FlushOldAttribute(self)
        tag == s.current_tag_name
    IN  IF ~s.current_tag_is_closing
        THEN IF is_paragraph_tag(tag)
             THEN [s EXCEPT !.last_start_tag = tag,
                            !.in_paragraph = TRUE,
                            !.last_paragraph_i = 0,
                            !.paragraph_walker = PFinishWalker(@),
                            !.current_tag_name = ""]
             ELSE [s EXCEPT !.last_start_tag = tag, !.current_tag_name = ""]
        ELSE IF is_paragraph_tag(tag)
             THEN [s EXCEPT !.last_start_tag = "",
                            !.link_buf =
                                IF s.in_paragraph
                                THEN SetParagraphs(@, s.last_paragraph_i,
                                                   PFinishValue(s.paragraph_walker))
                                ELSE @,
                            !.in_paragraph = FALSE,
                            !.last_paragraph_i = Len(s.link_buf),
                            !.paragraph_walker = PFinishWalker(@),
                            !.current_tag_name = ""]
             ELSE [s EXCEPT !.last_start_tag = "", !.current_tag_name = ""]

emit_current_tag(self) ==
    LET s == FlushOldAttribute(self)
        tag == s.current_tag_name
    IN  IF ~s.current_tag_is_closing
        THEN IF is_paragraph_tag(tag)
             THEN [s EXCEPT !.last_start_tag = tag,
                            !.in_paragraph = TRUE,
                            !.last_paragraph_i = Len(s.link_buf),
                            !.paragraph_walker = PFinishWalker(@),
                            !.current_tag_name = ""]
             ELSE [s EXCEPT !.last_start_tag = tag, !.current_tag_name = ""]
        ELSE IF is_paragraph_tag(tag)
             THEN [s EXCEPT !.last_start_tag = "",
                            !.link_buf =
                                IF s.in_paragraph
                                THEN SetParagraphs(@, s.last_paragraph_i,
                                                   PFinishValue(s.paragraph_walker))
                                ELSE @,
                            !.in_paragraph = FALSE,
                            !.last_paragraph_i = Len(s.link_buf),
                            !.paragraph_walker = PFinishWalker(@),
                            !.current_tag_name = ""]
             ELSE [s EXCEPT !.last_start_tag = "", !.current_tag_name = ""]

set_self_closing(self) ==
    IF is_paragraph_tag(self.current_tag_name)
    THEN [self EXCEPT !.in_paragraph = FALSE]
    ELSE self

\* Vec::extend of the name buffers (names arrive whole)
push_tag_name(self, s) == [self EXCEPT !.current_tag_name = s]

init_attribute(self) == FlushOldAttribute(self)

push_attribute_name(self, s) == [self EXCEPT !.current_attribute_name = s]

push_attribute_value(self, s) == [self EXCEPT !.current_attribute_value = @ \o s]

\* The calls of the tokenizer for the attributes of a tag, in order
RECURSIVE PushAttributes(_, _)
PushAttributes(self, attrs) ==
    IF attrs = <<>> THEN self
    ELSE PushAttributes(
            push_attribute_value(
                push_attribute_name(init_attribute(self), Head(attrs).name),
                Head(attrs).value),
            Tail(attrs))

\* The calls of the tokenizer for a start tag <name attrs> or <name attrs/>;
\* the tokenizer reports the closing slash before it emits the tag
StartTagToken(self, name, attrs, self_closing) ==
    LET opened == PushAttributes(push_tag_name(init_start_tag(self), name), attrs)
    IN  emit_current_tag(IF self_closing THEN set_self_closing(opened) ELSE opened)

\* The calls of the tokenizer for an end tag </name>
EndTagToken(self, name) ==
    emit_current_tag(push_tag_name(init_end_tag(self), name))

-----------------------------------------------------------------------------
(* src/src/markdown.rs: DocumentSource::paragraphs, the loop over the events *)

PARAGRAPH_TAGS == {"Paragraph", "Item"}

\* The events of the parser: Start(tag), End(tag) with the end of its range,
\* Text(text), Code(text), and the events the loop ignores
MdStart(tag) == [type |-> "Start", tag |-> tag, text |-> <<>>, range_end |-> 0]
MdEnd(tag, range_end) == [type |-> "End", tag |-> tag, text |-> <<>>, range_end |-> range_end]
MdText(text) == [type |-> "Text", tag |-> "", text |-> text, range_end |-> 0]
MdCode(text) == [type |-> "Code", tag |-> "", text |-> text, range_end |-> 0]
MdSoftBreak == [type |-> "SoftBreak", tag |-> "", text |-> <<>>, range_end |-> 0]

\* line_numbers.binary_search(&range.end), Ok(i) and Err(i) alike, plus one:
\* line_numbers is strictly increasing
LineOf(line_numbers, range_end) ==
    Cardinality({k \in 1..Len(line_numbers) : line_numbers[k] < range_end}) + 1

\* One turn of the loop; st holds walker, in_paragraph and rv
MdEvent(st, event, line_numbers) ==
    IF event.type = "Start" /\ event.tag \in PARAGRAPH_TAGS
    THEN [st EXCEPT !.walker = PFinishWalker(@), !.in_paragraph = TRUE]
    ELSE IF event.type = "End" /\ event.tag \in PARAGRAPH_TAGS
    THEN [walker |-> PFinishWalker(st.walker),
          in_paragraph |-> FALSE,
          rv |-> IF st.in_paragraph /\ PFinishValue(st.walker) /= None
                 THEN Append(st.rv, [paragraph |-> PFinishValue(st.walker),
                                     lineno |-> LineOf(line_numbers, event.range_end)])
                 ELSE st.rv]
    ELSE IF event.type \in {"Text", "Code"}
    THEN (IF st.in_paragraph THEN [st EXCEPT !.walker = PUpdate(@, event.text)] ELSE st)
    ELSE st

RECURSIVE MdEvents(_, _, _)
MdEvents(st, events, line_numbers) ==
    IF events = <<>> THEN st
    ELSE MdEvents(MdEvent(st, Head(events), line_numbers), Tail(events), line_numbers)

\* DocumentSource::paragraphs::<P> on the events and line ends of a file
MdParagraphs(tracking, events, line_numbers) ==
    MdEvents([walker |-> WalkerNew(tracking), in_paragraph |-> FALSE, rv |-> <<>>],
             events, line_numbers).rv

-----------------------------------------------------------------------------
(* The emitter over the tokens of one document (SpecExtract) *)

MaxHtmlTokens == 6

\* A start tag of the document
Tag(name, attrs, self_closing) ==
    [name |-> name, attrs |-> attrs, self_closing |-> self_closing]

\* The start tags, end tags and texts a document is made of
StartTags ==
    {Tag("p", <<>>, FALSE),
     Tag("p", <<>>, TRUE),
     Tag("em", <<>>, FALSE),
     Tag("a", <<[name |-> "href", value |-> <<"m">>]>>, FALSE),
     Tag("a", <<[name |-> "name", value |-> <<"g">>]>>, FALSE)}
EndTags == {"p", "a"}
Texts == {<<"a">>, <<"b">>, <<" ">>}

ExtractInit ==
    /\ \E anchors \in BOOLEAN, tracking \in BOOLEAN :
         e_em = EmitterNew(DocumentNew(FileB), anchors, tracking)
    /\ e_n = 0
    /\ e_open = FALSE
    /\ e_since = 0
    /\ e_vis = <<>>
    /\ e_meta = <<>>
    /\ e_pars = <<>>
    /\ e_last = "none"
    /\ e_pc = "html"
    /\ CollIdle
    /\ PipeIdle
    /\ UrlIdle
    /\ HashIdle
    /\ MdIdle

\* e_meta for a link buffer that has grown: whether a paragraph was open when
\* the link was pushed, whether a paragraph end tag has come since, and the
\* last paragraph start tag before the link
MetaFor(link_buf) ==
    e_meta \o [i \in 1..(Len(link_buf) - Len(e_meta)) |->
                 [open |-> e_open, closed |-> FALSE, last |-> e_last]]

\* The tokenizer has read a start tag
EStartTag(tag) ==
    /\ e_pc = "html"
    /\ e_n < MaxHtmlTokens
    /\ e_em' = StartTagToken(e_em, tag.name, tag.attrs, tag.self_closing)
    /\ e_n' = e_n + 1
    /\ e_meta' = MetaFor(e_em'.link_buf)
    /\ IF is_paragraph_tag(tag.name)
       THEN /\ e_open' = TRUE
            /\ e_since' = Len(e_em'.link_buf)
            /\ e_vis' = <<>>
            /\ e_last' = IF tag.self_closing THEN "self_closing" ELSE "open"
       ELSE UNCHANGED <<e_open, e_since, e_vis, e_last>>
    /\ UNCHANGED <<e_pars, e_pc>>
    /\ UNCHANGED exceptExtract

\* The tokenizer has read an end tag
EEndTag(name) ==
    /\ e_pc = "html"
    /\ e_n < MaxHtmlTokens
    /\ e_em' = EndTagToken(e_em, name)
    /\ e_n' = e_n + 1
    /\ IF is_paragraph_tag(name)
       THEN /\ e_meta' = [i \in 1..Len(e_meta) |-> [e_meta[i] EXCEPT !.closed = TRUE]]
            /\ e_pars' = IF e_open
                         THEN Append(e_pars, [from |-> e_since,
                                              to |-> Len(e_em.link_buf),
                                              text |-> e_vis])
                         ELSE e_pars
            /\ e_open' = FALSE
       ELSE UNCHANGED <<e_meta, e_pars, e_open>>
    /\ UNCHANGED <<e_since, e_vis, e_last, e_pc>>
    /\ UNCHANGED exceptExtract

\* The tokenizer has read text
EString(c) ==
    /\ e_pc = "html"
    /\ e_n < MaxHtmlTokens
    /\ e_em' = emit_string(e_em, c)
    /\ e_n' = e_n + 1
    /\ e_vis' = Append(e_vis, c)
    /\ UNCHANGED <<e_open, e_since, e_meta, e_pars, e_last, e_pc>>
    /\ UNCHANGED exceptExtract

\* The end of the document: links_from_read returns the link buffer
EEof ==
    /\ e_pc = "html"
    /\ e_pc' = "eof"
    /\ UNCHANGED <<e_em, e_n, e_open, e_since, e_vis, e_meta, e_pars, e_last>>
    /\ UNCHANGED exceptExtract

ExtractNext ==
    \/ \E tag \in StartTags : EStartTag(tag)
    \/ \E name \in EndTags : EEndTag(name)
    \/ \E c \in Texts : EString(c)
    \/ EEof

SpecExtract == ExtractInit /\ [][ExtractNext]_vars

\* C17: a UsedLink has a fingerprint only if paragraph tracking is on and the
\* link was pushed between a paragraph start tag and a paragraph end tag; with
\* the no-op walker no UsedLink has one, and a Defines link never has one.
C17_FingerprintOnlyInParagraph ==
    \A i \in 1..Len(e_em.link_buf) :
        /\ e_em.link_buf[i].kind = "Uses" =>
              /\ e_em.link_buf[i].paragraph /= None =>
                    /\ e_em.get_paragraphs
                    /\ e_em.paragraph_walker.kind = "ParagraphHasher"
                    /\ e_meta[i].open
                    /\ e_meta[i].closed
              /\ e_em.paragraph_walker.kind = "NoopParagraphWalker"
                    => e_em.link_buf[i].paragraph = None
        /\ e_em.link_buf[i].kind = "Defines" =>
              "paragraph" \notin DOMAIN e_em.link_buf[i]

\* C17 witness: with tracking, a link before the paragraph without a
\* fingerprint, a link inside with one, and an anchor definition
C17_Witness ==
    /\ e_pc = "eof"
    /\ Len(e_em.link_buf) = 3
    /\ e_em.link_buf[1].kind = "Uses" /\ e_em.link_buf[1].paragraph = None
    /\ e_em.link_buf[2].kind = "Uses" /\ e_em.link_buf[2].paragraph /= None
    /\ e_em.link_buf[3].kind = "Defines"

\* The digest of the text of a paragraph, as finish_paragraph returns it with
\* and without tracking
DigestOf(texts) ==
    IF e_em.get_paragraphs THEN [hash |-> StripWhitespace(Flatten(texts))] ELSE None

\* C28: the end tag of a paragraph element, reached in paragraph mode, gives
\* the digest of the text since the start tag to every Uses link pushed since
\* the start tag and to no other link: Defines links and the links pushed
\* before the start tag are unchanged, and paragraph mode is off afterwards.
C28_EndTagFrame ==
    [][(e_em.in_paragraph /\ \E name \in EndTags : is_paragraph_tag(name) /\ EEndTag(name))
        => /\ ~e_em'.in_paragraph
           /\ Len(e_em'.link_buf) = Len(e_em.link_buf)
           /\ \A i \in 1..Len(e_em.link_buf) :
                IF i > e_since /\ e_em.link_buf[i].kind = "Uses"
                THEN e_em'.link_buf[i]
                        = [e_em.link_buf[i] EXCEPT !.paragraph = DigestOf(e_vis)]
                ELSE e_em'.link_buf[i] = e_em.link_buf[i]]_vars

\* C28 witness: <a href=m><p>a<a href=m><a name=g></p> with tracking: the
\* first link is as before, the second has the digest of a, the third is a
\* Defines link.
C28_Witness ==
    /\ e_em.get_paragraphs
    /\ e_em.check_anchors
    /\ e_n = 6
    /\ ~e_em.in_paragraph
    /\ Len(e_em.link_buf) = 3
    /\ e_em.link_buf[1].kind = "Uses" /\ e_em.link_buf[1].paragraph = None
    /\ e_em.link_buf[2].kind = "Uses" /\ e_em.link_buf[2].paragraph = [hash |-> <<"a">>]
    /\ e_em.link_buf[3].kind = "Defines"
    /\ e_pars = <<[from |-> 1, to |-> 3, text |-> <<<<"a">>>>]>>

\* C29: after a self-closing paragraph start tag the emitter is not in
\* paragraph mode, the text that follows is not fed to the fingerprinter, and
\* a Uses link pushed after it, before any other paragraph start tag, gets no
\* fingerprint from a later paragraph end tag.
C29_SelfClosing ==
    /\ e_last = "self_closing" =>
            /\ ~e_em.in_paragraph
            /\ e_em.paragraph_walker.hasher = HasherNew
    /\ \A i \in 1..Len(e_em.link_buf) :
            (e_em.link_buf[i].kind = "Uses" /\ e_meta[i].last = "self_closing")
                => e_em.link_buf[i].paragraph = None

\* What the emitter does instead: a self-closing paragraph start tag opens a
\* paragraph like any other paragraph start tag.
C29_SelfClosingOpens ==
    /\ (e_last = "self_closing" /\ e_open) => e_em.in_paragraph
    /\ \A k \in 1..Len(e_pars) : \A i \in (e_pars[k].from + 1)..e_pars[k].to :
            e_em.link_buf[i].kind = "Uses"
                => e_em.link_buf[i].paragraph = DigestOf(e_pars[k].text)

\* <p/>a<a href=m></p> with tracking: the link has the digest of a.
C29_Witness ==
    /\ e_em.get_paragraphs
    /\ e_last = "self_closing"
    /\ e_n = 4
    /\ Len(e_em.link_buf) = 1
    /\ e_meta[1].last = "self_closing"
    /\ e_em.link_buf[1].paragraph = [hash |-> <<"a">>]

\* The paragraph, among those closed by an end tag, that holds link i
ParagraphsOf(i) == {k \in 1..Len(e_pars) : e_pars[k].from < i /\ i <= e_pars[k].to}

\* C30: a paragraph start tag inside an open paragraph replaces the outer
\* paragraph. With tracking, a Uses link has a fingerprint exactly if it was
\* pushed between a paragraph start tag and the next paragraph tag, that tag
\* being an end tag, and the fingerprint is the digest of the text between
\* these two tags: links of the outer paragraph before the inner start tag
\* and links between the inner and the outer end tag have none.
C30_InnerReplacesOuter ==
    e_em.get_paragraphs =>
        /\ \A i \in 1..Len(e_em.link_buf) :
            e_em.link_buf[i].kind = "Uses" =>
                /\ Cardinality(ParagraphsOf(i)) <= 1
                /\ ParagraphsOf(i) = {} => e_em.link_buf[i].paragraph = None
                /\ \A k \in ParagraphsOf(i) :
                        e_em.link_buf[i].paragraph = [hash |-> StripWhitespace(Flatten(e_pars[k].text))]
        /\ e_em.in_paragraph =>
                e_em.paragraph_walker.hasher = StripWhitespace(Flatten(e_vis))

\* C30 witness: <p>a<a href=m><p>b<a href=m></p>: the link of the outer
\* paragraph has no fingerprint, the link of the inner one the digest of b.
C30_Witness ==
    /\ e_em.get_paragraphs
    /\ e_n = 6
    /\ Len(e_em.link_buf) = 2
    /\ e_meta[1].open /\ e_meta[1].closed
    /\ e_em.link_buf[1].kind = "Uses" /\ e_em.link_buf[1].paragraph = None
    /\ e_em.link_buf[2].kind = "Uses" /\ e_em.link_buf[2].paragraph = [hash |-> <<"b">>]
    /\ e_pars = <<[from |-> 1, to |-> 2, text |-> <<<<"b">>>>]>>

\* <p><p></p><a href=m></p>: the link between the inner and the outer end tag
\* has no fingerprint.
C30_WitnessAfterInner ==
    /\ e_em.get_paragraphs
    /\ e_n = 5
    /\ Len(e_em.link_buf) = 1
    /\ e_meta[1].closed /\ ~e_meta[1].open
    /\ e_em.link_buf[1].paragraph = None
    /\ Len(e_pars) = 1

\* Markdown renderings of a paragraph: up to two inline events between the
\* start and the end of a paragraph or of a list item, after another paragraph
MdTexts == SeqsUpTo({"a", "b", " ", "\n"}, 2) \ {<<>>}
MdInline ==
    {MdText(c) : c \in MdTexts} \cup {MdCode(c) : c \in MdTexts}
        \cup {MdSoftBreak, MdStart("Emphasis"), MdEnd("Emphasis", 0)}
MdBodies == SeqsUpTo(MdInline, 2)

RECURSIVE MdTextOf(_)
MdTextOf(events) ==
    IF events = <<>> THEN <<>>
    ELSE (IF Head(events).type \in {"Text", "Code"} THEN Head(events).text ELSE <<>>)
         \o MdTextOf(Tail(events))

MdRendering(tag, body) ==
    <<MdStart("Paragraph"), MdText(<<"b">>), MdEnd("Paragraph", 0), MdStart(tag)>>
        \o body \o <<MdEnd(tag, 0)>>

\* What the Markdown extractor returns for each rendering, by the text of
\* the rendering without its whitespace
MdExtracted ==
    {[text |-> StripWhitespace(MdTextOf(body)),
      rv |-> MdParagraphs(TRUE, MdRendering(tag, body), <<>>)] :
        tag \in PARAGRAPH_TAGS, body \in MdBodies}

\* C16: the links inside a paragraph element whose text is T, without another
\* paragraph tag inside, have the fingerprint the Markdown extractor gives the
\* paragraph of text T (Text and Code events), whatever the whitespace and
\* the inline markup of the two renderings.
C16_FingerprintEquivalence ==
    e_em.get_paragraphs =>
        \A k \in 1..Len(e_pars) : \A r \in MdExtracted :
            r.text = StripWhitespace(Flatten(e_pars[k].text))
                => /\ Len(r.rv) = 2
                   /\ \A i \in (e_pars[k].from + 1)..e_pars[k].to :
                        e_em.link_buf[i].kind = "Uses"
                            => e_em.link_buf[i].paragraph = r.rv[2].paragraph

\* C16 witness: <p>a<a href=m>b</a></p> against the Markdown events
\* Text("a\n"), Code("b")
C16_Witness ==
    /\ e_em.get_paragraphs
    /\ Len(e_pars) = 1
    /\ e_pars[1].text = <<<<"a">>, <<"b">>>>
    /\ e_pars[1].from = 0 /\ e_pars[1].to = 1
    /\ e_em.link_buf[1].kind = "Uses"
    /\ e_em.link_buf[1].paragraph
         = MdParagraphs(TRUE, <<MdStart("Paragraph"), MdText(<<"a", "\n">>),
                                MdCode(<<"b">>), MdEnd("Paragraph", 0)>>, <<>>)[1].paragraph

-----------------------------------------------------------------------------
(* The canonicalizer on its own (SpecUrls): one document, one raw href *)

MaxTokens == 4
MaxUrlLen == 3

\* Raw paths: up to MaxTokens path tokens in a row
PathTokens == {<<"a">>, <<"/">>, <<".">>, <<".", ".">>, <<":">>, IndexHtml}
PathPool == {Flatten(ts) : ts \in SeqsUpTo(PathTokens, MaxTokens)}

\* Raw urls: every string of up to MaxUrlLen characters of this alphabet
UrlChars == {"a", "Z", "1", "+", "-", ".", ":", "/", "#"}
UrlPool == SeqsUpTo(UrlChars, MaxUrlLen)

\* Documents: in the site root and in the directory d, index file or not
DirD == <<"d">>
FileDIndex == DirD \o <<"/">> \o IndexHtml
FileDB == DirD \o <<"/">> \o FileB
DocPaths == {FileB, FileIndex, FileDIndex, FileDB}

\* Directories that hold an index file, and the names of the index file
TargetDirs == {<<>>, DirD, DirD \o <<"/", "e">>, IndexHtml}
IndexNames == {IndexHtml, IndexHtm}

\* The path of the file called name in the directory dir
PathIn(dir, name) == IF dir = <<>> THEN name ELSE dir \o <<"/">> \o name

\* The ways a link to the directory dir is written: /dir, /dir/, /dir/index.html
\* and /dir/index.htm (for the root directory: /, /index.html and /index.htm)
LinkForms(dir) ==
    IF dir = <<>> THEN {<<"/">>, <<"/">> \o IndexHtml, <<"/">> \o IndexHtm}
    ELSE {<<"/">> \o dir, <<"/">> \o dir \o <<"/">>,
          <<"/">> \o PathIn(dir, IndexHtml), <<"/">> \o PathIn(dir, IndexHtm)}

DirLinkPool == UNION {LinkForms(dir) : dir \in TargetDirs}

\* Values of a srcset attribute: up to MaxTokens of urls, descriptors,
\* spaces and commas in a row
SrcsetTokens == {<<"a">>, <<"b">>, <<" ">>, <<",">>, <<"1", "x">>}
SrcsetPool == {Flatten(ts) : ts \in SeqsUpTo(SrcsetTokens, MaxTokens)}

\* Raw hrefs with a query and a fragment: up to MaxTokens of these in a row
JoinTokens == {<<"a">>, <<"/">>, <<"?">>, <<"#">>, <<"%", "6", "2">>, <<".", ".">>}
JoinPool == {Flatten(ts) : ts \in SeqsUpTo(JoinTokens, MaxTokens)}

RawPool == PathPool \cup UrlPool \cup DirLinkPool \cup SrcsetPool \cup JoinPool

UrlInit ==
    /\ u_path \in DocPaths
    /\ u_raw \in RawPool
    /\ u_href = <<>>
    /\ u_ext = "unset"
    /\ u_target = <<>>
    /\ u_report = <<>>
    /\ u_links = <<>>
    /\ u_pc = "new"
    /\ CollIdle
    /\ PipeIdle
    /\ HashIdle
    /\ ExtractIdle
    /\ MdIdle

\* push_and_canonicalize(base, raw) with the base of the document
UCanonicalize ==
    /\ u_pc = "new"
    /\ u_href' = <<push_and_canonicalize(JoinBase(DocumentNew(u_path)), u_raw)>>
    /\ u_pc' = "canon"
    /\ UNCHANGED <<u_path, u_raw, u_ext, u_target, u_report, u_links>>
    /\ UNCHANGED exceptUrl

\* push_and_canonicalize(base, href) with the href of the first call as the path
URecanonicalize ==
    /\ u_pc = "canon"
    /\ u_href' = Append(u_href,
                    push_and_canonicalize(JoinBase(DocumentNew(u_path)), u_href[1]))
    /\ u_pc' = "recanon"
    /\ UNCHANGED <<u_path, u_raw, u_ext, u_target, u_report, u_links>>
    /\ UNCHANGED exceptUrl

\* The scan of a site of two files: the index file of a directory and the
\* document, whose content is one link to that directory. u_href keeps the
\* href of the index file and the href of the link.
UScan(dir, name, anchors) ==
    /\ u_pc = "new"
    /\ u_raw \in LinkForms(dir)
    /\ LET target == PathIn(dir, name)
           content == <<Attr("href", u_raw, None)>>
           site == IF target = u_path
                   THEN FoldEntry(FoldIdentity, u_path, anchors, content)
                   ELSE FoldEntry(FoldEntry(FoldIdentity, target, anchors, <<>>),
                                  u_path, anchors, content)
       IN  /\ u_target' = [dir |-> dir, path |-> target]
           /\ u_href' = <<DocumentNew(target).href,
                          DocumentJoin(DocumentNew(u_path), anchors,
                                       try_normalize_href_value(u_raw))>>
           /\ u_report' = get_broken_links(site.collector, anchors)
    /\ u_pc' = "scanned"
    /\ UNCHANGED <<u_path, u_raw, u_ext, u_links>>
    /\ UNCHANGED exceptUrl

\* Document::join of the document on the raw href; u_target keeps preserve_anchor
UJoin(preserve_anchor) ==
    /\ u_pc = "new"
    /\ u_href' = <<DocumentJoin(DocumentNew(u_path), preserve_anchor, u_raw)>>
    /\ u_target' = [preserve_anchor |-> preserve_anchor]
    /\ u_pc' = "joined"
    /\ UNCHANGED <<u_path, u_raw, u_ext, u_report, u_links>>
    /\ UNCHANGED exceptUrl

\* The scan of a site of one file, the document, whose content is one link
\* with the raw href. u_href keeps the href of the link, u_links the link
\* buffer of the document, u_target the option.
UCheck(anchors) ==
    /\ u_pc = "new"
    /\ LET content == <<Attr("href", u_raw, None)>>
           site == FoldEntry(FoldIdentity, u_path, anchors, content)
       IN  /\ u_links' = DocumentLinks(DocumentNew(u_path), anchors, content)
           /\ u_href' = <<DocumentJoin(DocumentNew(u_path), anchors,
                                       try_normalize_href_value(u_raw))>>
           /\ u_report' = get_broken_links(site.collector, anchors)
    /\ u_target' = [anchors |-> anchors]
    /\ u_pc' = "checked"
    /\ UNCHANGED <<u_path, u_raw, u_ext>>
    /\ UNCHANGED exceptUrl

\* is_external_link(raw)
UClassify ==
    /\ u_pc = "new"
    /\ u_ext' = is_external_link(u_raw)
    /\ u_pc' = "classified"
    /\ UNCHANGED <<u_path, u_raw, u_href, u_target, u_report, u_links>>
    /\ UNCHANGED exceptUrl

\* The tokenizer's calls for <img srcset="raw"> in the document
USrcset(anchors, tracking) ==
    /\ u_pc = "new"
    /\ u_raw \in SrcsetPool
    /\ u_links' = StartTagToken(EmitterNew(DocumentNew(u_path), anchors, tracking),
                                "img", <<[name |-> "srcset", value |-> u_raw]>>,
                                FALSE).link_buf
    /\ u_pc' = "srcset"
    /\ UNCHANGED <<u_path, u_raw, u_href, u_ext, u_target, u_report>>
    /\ UNCHANGED exceptUrl

\* The tokenizer's calls for <tag name="raw"> in the document, name being
\* id or name; u_target keeps the option and the attribute
UAnchor(anchors, tag, name) ==
    /\ u_pc = "new"
    /\ u_links' = StartTagToken(EmitterNew(DocumentNew(u_path), anchors, FALSE),
                                tag, <<[name |-> name, value |-> u_raw]>>,
                                FALSE).link_buf
    /\ u_target' = [anchors |-> anchors, tag |-> tag, name |-> name]
    /\ u_pc' = "anchor"
    /\ UNCHANGED <<u_path, u_raw, u_href, u_ext, u_report>>
    /\ UNCHANGED exceptUrl

UrlNext ==
    \/ UClassify
    \/ \E anchors \in BOOLEAN, tag \in {"a", "p"}, name \in {"id", "name"} :
         UAnchor(anchors, tag, name)
    \/ \E anchors \in BOOLEAN, tracking \in BOOLEAN : USrcset(anchors, tracking)
    \/ UCanonicalize
    \/ URecanonicalize
    \/ \E preserve_anchor \in BOOLEAN : UJoin(preserve_anchor)
    \/ \E anchors \in BOOLEAN : UCheck(anchors)
    \/ \E dir \in TargetDirs, name \in IndexNames, anchors \in BOOLEAN :
         UScan(dir, name, anchors)

SpecUrls == UrlInit /\ [][UrlNext]_vars

\* The last component of an href is an index file name
EndsInIndex(href) ==
    LET comps == Split(href, "/") IN comps[Len(comps)] \in {IndexHtml, IndexHtm}

\* The document lies in the site's root directory
InRoot(path) == Find(path, {"/"}) = 0

\* C12 as stated: canonicalize(b, canonicalize(b, h)) = canonicalize(b, h)
\* for every base b and raw href h.
C12_Original ==
    u_pc = "recanon" => u_href[2] = u_href[1]

\* C12 amended: canonicalize(b, canonicalize(b, h)) = canonicalize(b, h) when h
\* is external, and when b is the base of a document in the site's root
\* directory and the canonical form is not empty and does not end in an index
\* file name.
C12_Idempotent ==
    (/\ u_pc = "recanon"
     /\ \/ is_external_link(u_raw)
        \/ InRoot(u_path) /\ u_href[1] /= <<>> /\ ~EndsInIndex(u_href[1]))
        => u_href[2] = u_href[1]

\* C12 witness: an href that ends in an index file name,
\* from a document in the root directory, canonicalized twice.
C12_Witness ==
    /\ u_pc = "recanon"
    /\ u_path = FileB
    /\ u_raw = <<"/", "a", "/">> \o IndexHtml
    /\ u_href = <<<<"a">>, <<"a">>>>

\* The path built by push_and_canonicalize(base, path) after the first k
\* components of a path that is neither external nor empty
BuiltAfter(base, path, k) ==
    LET comps == Split(path, "/")
    IN  PushComponents(IF StartsWith(path, <<"/">>) THEN <<>> ELSE TruncateAtLastSlash(base),
                       SubSeq(comps, 1, k), 0, Len(comps) - 1)

\* An ordinary component appended to the path built so far
Pushed(built, component) ==
    IF built = <<>> THEN component ELSE built \o <<"/">> \o component

\* C24: push_and_canonicalize drops a component index.html or index.htm if
\* and only if it is the last component of the path; in any earlier position
\* it is appended like an ordinary component.
C24_IndexOnlyLast ==
    (u_pc = "canon" /\ ~is_external_link(u_raw) /\ u_raw /= <<>>) =>
        LET base == JoinBase(DocumentNew(u_path))
            comps == Split(u_raw, "/")
            n == Len(comps)
        IN  /\ u_href[1] = BuiltAfter(base, u_raw, n)
            /\ \A k \in 1..n :
                comps[k] \in {IndexHtml, IndexHtm} =>
                    IF k = n
                    THEN BuiltAfter(base, u_raw, k) = BuiltAfter(base, u_raw, k - 1)
                    ELSE BuiltAfter(base, u_raw, k)
                            = Pushed(BuiltAfter(base, u_raw, k - 1), comps[k])
            /\ (n > 1 /\ comps[n] \notin {IndexHtml, IndexHtm, <<>>, <<".">>, <<".", ".">>})
                    => Split(u_href[1], "/")[Len(Split(u_href[1], "/"))] = comps[n]

\* C24 witness: base d/b.html with index.html/a gives d/index.html/a.
C24_Witness ==
    /\ u_pc = "canon"
    /\ u_path = FileDB
    /\ u_raw = IndexHtml \o <<"/", "a">>
    /\ u_href = <<DirD \o <<"/">> \o IndexHtml \o <<"/", "a">>>>

\* Base d/b.html with index.html gives d.
C24_WitnessLast ==
    /\ u_pc = "canon"
    /\ u_path = FileDB
    /\ u_raw = IndexHtml
    /\ u_href = <<DirD>>

\* The parts of a raw href: the path up to the first ? or #, and the fragment
\* from the first # on (with the #)
PathPart(raw) == SubSeq(raw, 1, FindOrLen(raw, {"?", "#"}))
FragmentPart(raw) == SubSeq(raw, FindOrLen(raw, {"#"}) + 1, Len(raw))

\* One trailing slash stripped
StripSlash(s) == IF s /= <<>> /\ s[Len(s)] = "/" THEN SubSeq(s, 1, Len(s) - 1) ELSE s

\* C25: a raw href with an empty path (empty, query only, fragment only)
\* has the href of its document, with the fragment appended when anchors are
\* preserved; push_and_canonicalize returns the base without one trailing
\* slash and removes no component of it.
C25_EmptyPath ==
    /\ (u_pc = "canon" /\ u_raw = <<>>) =>
            u_href[1] = StripSlash(JoinBase(DocumentNew(u_path)))
    /\ (u_pc = "joined" /\ PathPart(u_raw) = <<>>) =>
            /\ without_anchor(u_href[1]) = DocumentNew(u_path).href
            /\ u_href[1] =
                    IF u_target.preserve_anchor /\ Len(FragmentPart(u_raw)) > 1
                    THEN DocumentNew(u_path).href \o try_percent_decode(FragmentPart(u_raw))
                    ELSE DocumentNew(u_path).href

\* C25 witness: the href #a of d/index.html, anchors preserved, is d#a.
C25_Witness ==
    /\ u_pc = "joined"
    /\ u_path = FileDIndex
    /\ u_raw = <<"#", "a">>
    /\ u_target.preserve_anchor
    /\ u_href = <<DirD \o <<"#", "a">>>>

\* C27: the canonical href never includes the query string; it includes the
\* fragment if and only if preserve_anchor is true, the raw href contains #
\* and the text after # is not empty; without preserve_anchor, hrefs that
\* differ only in query or fragment have the same canonical href.
C27_QueryAndFragment ==
    u_pc = "joined" =>
        LET doc == DocumentNew(u_path)
            path_only == DocumentJoin(doc, FALSE, PathPart(u_raw))
            has_fragment == Find(u_raw, {"#"}) /= 0 /\ Len(FragmentPart(u_raw)) > 1
        IN  /\ ~u_target.preserve_anchor => u_href[1] = path_only
            /\ u_target.preserve_anchor =>
                    /\ has_fragment =>
                        u_href[1] = path_only \o try_percent_decode(FragmentPart(u_raw))
                    /\ ~has_fragment => u_href[1] = path_only
            /\ u_href[1] = DocumentJoin(doc, u_target.preserve_anchor,
                                        PathPart(u_raw) \o FragmentPart(u_raw))

\* C27 witness: a?a# from b.html with anchors preserved is a.
C27_Witness ==
    /\ u_pc = "joined"
    /\ u_path = FileB
    /\ u_raw = <<"a", "?", "a", "#">>
    /\ u_target.preserve_anchor
    /\ u_href = <<<<"a">>>>

\* ?a#a from b.html with anchors preserved is b.html#a.
C27_WitnessFragment ==
    /\ u_pc = "joined"
    /\ u_path = FileB
    /\ u_raw = <<"?", "a", "#", "a">>
    /\ u_target.preserve_anchor
    /\ u_href = <<FileB \o <<"#", "a">>>>

\* A path without its last component (the empty path stays empty)
WithoutLastComponent(built) ==
    IF built = <<>> THEN <<>> ELSE JoinWith(DropLast(Split(built, "/")), "/")

\* C26: each '..' removes exactly the last component of the path built so
\* far, and an empty path stays empty; the canonical href of a path that is
\* not external has no '..' component and no leading '/', however many '..'
\* the raw href has.
C26_DotDot ==
    /\ (u_pc = "canon" /\ ~is_external_link(u_raw) /\ u_raw /= <<>>) =>
        LET base == JoinBase(DocumentNew(u_path))
            comps == Split(u_raw, "/")
        IN  /\ \A k \in 1..Len(comps) :
                comps[k] = <<".", ".">> =>
                    BuiltAfter(base, u_raw, k)
                        = WithoutLastComponent(BuiltAfter(base, u_raw, k - 1))
            /\ \A k \in 1..Len(Split(u_href[1], "/")) :
                    Split(u_href[1], "/")[k] /= <<".", ".">>
            /\ ~StartsWith(u_href[1], <<"/">>)
    /\ (u_pc = "joined" /\ ~is_external_link(try_percent_decode(PathPart(u_raw)))) =>
            /\ \A k \in 1..Len(Split(without_anchor(u_href[1]), "/")) :
                    Split(without_anchor(u_href[1]), "/")[k] /= <<".", ".">>
            /\ ~StartsWith(u_href[1], <<"/">>)

\* C26 witness: ../../ from d/b.html is the root directory.
C26_Witness ==
    /\ u_pc = "canon"
    /\ u_path = FileDB
    /\ u_raw = <<".", ".", "/", ".", ".", "/">>
    /\ u_href = <<<<>>>>

\* ../a from b.html, a document of the root directory, is a.
C26_WitnessRoot ==
    /\ u_pc = "canon"
    /\ u_path = FileB
    /\ u_raw = <<".", ".", "/", "a">>
    /\ u_href = <<<<"a">>>>

\* C13: for any directory d the href of d/index.html (or d/index.htm) is d, the
\* links /d, /d/, /d/index.html and /d/index.htm from any document have that
\* same href, and such a link is not reported broken when the directory holds
\* an index file.
C13_IndexFiles ==
    u_pc = "scanned" =>
        /\ u_href[1] = u_target.dir
        /\ u_href[2] = u_target.dir
        /\ u_report = <<>>

\* The directory is not itself called index.html or index.htm
PlainDir(dir) == dir = <<>> \/ ~EndsInIndex(dir)

\* C13 for the directories that are not called like an index file
C13_PlainDirs ==
    (u_pc = "scanned" /\ PlainDir(u_target.dir)) =>
        /\ u_href[1] = u_target.dir
        /\ u_href[2] = u_target.dir
        /\ u_report = <<>>

\* C13 witness: a document of another directory links to d/e, whose index
\* file is index.htm, and nothing is reported.
C13_Witness ==
    /\ u_pc = "scanned"
    /\ u_path = FileDB
    /\ u_target.path = DirD \o <<"/", "e", "/">> \o IndexHtm
    /\ u_raw = <<"/">> \o DirD \o <<"/", "e">>
    /\ u_href = <<DirD \o <<"/", "e">>, DirD \o <<"/", "e">>>>
    /\ u_report = <<>>

\* url has a prefix [A-Za-z][A-Za-z0-9+.-]*: that ends at position k
SchemePrefix(url, k) ==
    /\ k >= 2
    /\ url[k] = ":"
    /\ url[1] \in Lower \cup Upper
    /\ \A j \in 2..(k - 1) : url[j] \in Lower \cup Upper \cup Digit \cup {"+", "-", "."}

\* C14: is_external_link(url) is true if and only if url begins with // or has
\* a prefix [A-Za-z][A-Za-z0-9+.-]*: ; it is false for the empty string, for
\* a scheme-like word without ':' and when another character comes before the
\* first ':'.
C14_ExternalLink ==
    u_pc = "classified" =>
        /\ u_ext = (\/ StartsWith(u_raw, <<"/", "/">>)
                    \/ \E k \in 1..Len(u_raw) : SchemePrefix(u_raw, k))
        /\ u_raw = <<>> => u_ext = FALSE
        /\ (\A k \in 1..Len(u_raw) : u_raw[k] \in Lower \cup Upper) => u_ext = FALSE
        /\ (/\ ~StartsWith(u_raw, <<"/", "/">>)
            /\ \E k \in 1..Len(u_raw) :
                 /\ u_raw[k] \notin SchemeChars \cup {":"}
                 /\ \A j \in 1..k : u_raw[j] /= ":") => u_ext = FALSE

\* C14 witness: a scheme of a capital letter, a digit and a sign is external
C14_Witness ==
    /\ u_pc = "classified"
    /\ u_raw \in {<<"Z", "1", "+", ":">>, <<"Z", "+", ":">>}
    /\ u_ext = TRUE

\* The candidates of a srcset value that hold a character other than whitespace
Candidates(value) ==
    SelectSeq(Split(value, ","), LAMBDA c : \E i \in 1..Len(c) : c[i] \notin Whitespace)

\* The first token of a candidate: from its first character that is not
\* whitespace up to the next whitespace
FirstToken(c) ==
    LET i == CHOOSE k \in 1..Len(c) :
                 c[k] \notin Whitespace /\ \A j \in 1..(k - 1) : c[j] \in Whitespace
        rest == SubSeq(c, i, Len(c))
    IN  SubSeq(rest, 1, FindOrLen(rest, Whitespace))

\* C18: a srcset attribute of img gives exactly one Uses link for every
\* comma-separated candidate that holds a token, in the order of the
\* candidates; its href is the canonical form of the candidate's first token,
\* and descriptors and empty candidates give no link.
C18_Srcset ==
    u_pc = "srcset" =>
        /\ Len(u_links) = Len(Candidates(u_raw))
        /\ \A k \in 1..Len(u_links) :
             /\ u_links[k].kind = "Uses"
             /\ u_links[k].path = u_path
             /\ \E anchors \in BOOLEAN :
                  u_links[k].href = DocumentJoin(DocumentNew(u_path), anchors,
                                                 FirstToken(Candidates(u_raw)[k]))

\* C18 witness: a candidate with a descriptor and a trailing comma give one link
C18_Witness ==
    /\ u_pc = "srcset"
    /\ u_path = FileDB
    /\ u_raw = <<"a", " ", "1", "x", ",">>
    /\ Len(u_links) = 1
    /\ u_links[1] = UsesLink(<<"d", "/", "a">>, FileDB, None)

-----------------------------------------------------------------------------
(* src/src/main.rs: check_links after the scan, the source files and the   *)
(* diagnostics (Spec)                                                      *)

MARKDOWN_FILES == {<<"m", "d">>, <<"m", "d", "x">>}

Some(x) == [some |-> x]

\* ---- the source tree ----

SrcS == <<"s", ".", "m", "d">>
SrcT == <<"t", ".", "m", "d", "x">>
SrcN == <<"n", ".", "t", "x", "t">>

SourceFile(events, line_numbers) == [events |-> events, line_numbers |-> line_numbers]

\* "f1\n": one paragraph, of the text of the paragraph of index.html
TextF1 ==
    SourceFile(<<MdStart("Paragraph"), MdText(<<"f", "1">>), MdEnd("Paragraph", 3)>>,
               <<3>>)

\* "x\n\nf *1*\n": the same paragraph on line 3, with other whitespace and markup
TextXF1 ==
    SourceFile(<<MdStart("Paragraph"), MdText(<<"x">>), MdEnd("Paragraph", 2),
                 MdStart("Paragraph"), MdText(<<"f", " ">>), MdStart("Emphasis"),
                 MdText(<<"1">>), MdEnd("Emphasis", 6), MdEnd("Paragraph", 7)>>,
               <<2, 3, 7>>)

\* "x\n": no paragraph of the site
TextX ==
    SourceFile(<<MdStart("Paragraph"), MdText(<<"x">>), MdEnd("Paragraph", 2)>>, <<2>>)

\* The source trees: the paragraph in two Markdown files; in no Markdown file
SourceTrees ==
    {(SrcS :> TextXF1) @@ (SrcT :> TextF1) @@ (SrcN :> TextF1),
     (SrcS :> TextX) @@ (SrcN :> TextF1)}

IsMarkdownFile(path) == Extension(path) \in MARKDOWN_FILES

Range(f) == {f[i] : i \in DOMAIN f}

\* extract_markdown_paragraphs: the entries of the map from paragraph to
\* (source, lineno), over the Markdown files of the tree
extract_markdown_paragraphs(tree, tracking) ==
    UNION {{[paragraph |-> r.paragraph, source |-> f, lineno |-> r.lineno] :
                r \in Range(MdParagraphs(tracking, tree[f].events, tree[f].line_numbers))} :
           f \in {g \in DOMAIN tree : IsMarkdownFile(g)}}

\* One entry of a BTreeSet of bad_links_and_anchors, with the key of its map entry
Diagnostic(is_raw_file, filepath, bad_links, lineno, href) ==
    [is_raw_file |-> is_raw_file, filepath |-> filepath,
     set |-> IF bad_links THEN "bad_links" ELSE "bad_anchors",
     lineno |-> lineno, href |-> href]

\* paragraps_to_sourcefile.get(paragraph): the empty set for no entry
DocumentSources(index, paragraph) == {e \in index : e.paragraph = paragraph}

\* Faulty variant of ReportLink: the HTML file is listed in any case.
ReportLink_AlwaysRaw(index, broken_link) ==
    LET document_sources ==
            IF broken_link.paragraph /= None
            THEN DocumentSources(index, broken_link.paragraph) ELSE {}
    IN  {Diagnostic(FALSE, e.source, broken_link.hard_404, Some(e.lineno), broken_link.href) :
            e \in document_sources}
        \cup {Diagnostic(TRUE, broken_link.path, broken_link.hard_404, None, broken_link.href)}

\* The body of the loop over the broken links: what it inserts for one link
ReportLink(index, broken_link) ==
    LET document_sources ==
            IF broken_link.paragraph /= None
            THEN DocumentSources(index, broken_link.paragraph) ELSE {}
        had_sources == document_sources /= {}
    IN  IF had_sources
        THEN {Diagnostic(~had_sources, e.source, broken_link.hard_404,
                         Some(e.lineno), broken_link.href) : e \in document_sources}
        ELSE {Diagnostic(~had_sources, broken_link.path, broken_link.hard_404,
                         None, broken_link.href)}

\* The loop over the broken links
ReportLinks(index, links) == UNION {ReportLink(index, links[k]) : k \in 1..Len(links)}

\* ---- the lines of the standard output ----

\* println!("Reading files")
ReadingFiles == [line |-> "Reading files"]

\* println!("Checking {} links from {} files ({} documents)", ..)
Checking(html_result) ==
    [line |-> "Checking",
     links |-> used_links_count(html_result.collector),
     files |-> html_result.file_count,
     documents |-> html_result.documents_count]

\* println!("Found some broken links, reading source files")
ReadingSources == [line |-> "Found some broken links, reading source files"]

\* Faulty variant of FoundLines: the totals count the distinct (file, href)
\* pairs.
FoundLines_CountsDistinct(links, anchors) ==
    <<[line |-> "Found bad links",
       count |-> Cardinality({<<links[k].path, links[k].href>> :
                                 k \in {j \in 1..Len(links) : links[j].hard_404}})]>>
    \o (IF anchors
        THEN <<[line |-> "Found bad anchors",
                count |-> Cardinality({<<links[k].path, links[k].href>> :
                                          k \in {j \in 1..Len(links) : ~links[j].hard_404}})]>>
        ELSE <<>>)

\* println!("Found {} bad links", ..) and, with check_anchors, "Found {} bad anchors"
FoundLines(links, anchors) ==
    <<[line |-> "Found bad links",
       count |-> Cardinality({k \in 1..Len(links) : links[k].hard_404})]>>
    \o (IF anchors
        THEN <<[line |-> "Found bad anchors",
                count |-> Cardinality({k \in 1..Len(links) : ~links[k].hard_404})]>>
        ELSE <<>>)

\* Faulty variant of KeyLess: the groups are ordered by their path alone.
KeyLess_PathOnly(k1, k2) == StrLess(k1[2], k2[2])

\* Ord of the keys (is_raw_file, filepath) of the map bad_links_and_anchors
KeyLess(k1, k2) == (~k1[1] /\ k2[1]) \/ (k1[1] = k2[1] /\ StrLess(k1[2], k2[2]))

\* Ord of the entries (Option<lineno>, href) of a BTreeSet
EntryLess(e1, e2) ==
    \/ e1.lineno = None /\ e2.lineno /= None
    \/ e1.lineno /= None /\ e2.lineno /= None /\ e1.lineno.some < e2.lineno.some
    \/ e1.lineno = e2.lineno /\ StrLess(e1.href, e2.href)

\* The iteration over the keys of the map
RECURSIVE SortedGroupKeys(_)
SortedGroupKeys(ks) ==
    IF ks = {} THEN <<>>
    ELSE LET k == CHOOSE x \in ks : \A y \in ks \ {x} : KeyLess(x, y)
         IN  <<k>> \o SortedGroupKeys(ks \ {k})

\* The iteration over one of the two sets of a group: the lines that
\* print_href_error prints. The field set tells the two loops apart; the
\* printed text does not.
RECURSIVE PrintedEntries(_, _)
PrintedEntries(es, set) ==
    IF es = {} THEN <<>>
    ELSE LET e == CHOOSE x \in es : \A y \in es \ {x} : EntryLess(x, y)
         IN  <<[line |-> "error: bad link", href |-> e.href, lineno |-> e.lineno,
                set |-> set]>>
             \o PrintedEntries(es \ {e}, set)

\* One turn of the loop over the map: the path, the bad links, the bad
\* anchors, an empty line
PrintedGroup(diags, key) ==
    LET entries(set) ==
            {[lineno |-> d.lineno, href |-> d.href] :
                d \in {x \in diags : /\ x.is_raw_file = key[1] /\ x.filepath = key[2]
                                      /\ x.set = set}}
    IN  <<[line |-> "file", filepath |-> key[2]]>>
        \o PrintedEntries(entries("bad_links"), "bad_links")
        \o PrintedEntries(entries("bad_anchors"), "bad_anchors")
        \o <<[line |-> ""]>>

RECURSIVE PrintedGroups(_, _)
PrintedGroups(diags, keys) ==
    IF keys = <<>> THEN <<>>
    ELSE PrintedGroup(diags, Head(keys)) \o PrintedGroups(diags, Tail(keys))

\* The loop over the map bad_links_and_anchors
PrintedReport(diags) ==
    PrintedGroups(diags, SortedGroupKeys({<<d.is_raw_file, d.filepath>> : d \in diags}))

SourcesOptions == {None} \cup {Some(t) : t \in SourceTrees}

Init ==
    /\ check_anchors \in BOOLEAN
    /\ corpus \in {c \in [Files -> UNION {Contents(f) : f \in Files}] :
                     \A f \in Files : c[f] \in Contents(f)}
    /\ todo = Files
    /\ acc = {}
    /\ pc = "scan"
    /\ broken_links = <<>>
    /\ exit_code = -1
    /\ sources_path \in SourcesOptions
    /\ paragraps_to_sourcefile = {}
    /\ bad_links_and_anchors = {}
    /\ sources_read = {}
    /\ stdout = <<ReadingFiles>>
    /\ CollIdle
    /\ UrlIdle
    /\ HashIdle
    /\ ExtractIdle
    /\ MdIdle

\* Faulty variant of CheckLinks: the source files are read whenever a
\* sources path is given.
CheckLinks_Eager ==
    /\ pc = "scan"
    /\ todo = {}
    /\ Cardinality(acc) = 1
    /\ broken_links' = get_broken_links((CHOOSE a \in acc : TRUE).collector, check_anchors)
    /\ pc' = IF sources_path /= None THEN "sources" ELSE "report"
    /\ stdout' = stdout \o <<Checking(CHOOSE a \in acc : TRUE)>>
                    \o (IF pc' = "sources" THEN <<ReadingSources>> ELSE <<>>)
    /\ UNCHANGED <<check_anchors, corpus, todo, acc, exit_code>>
    /\ UNCHANGED <<sources_path, paragraps_to_sourcefile, bad_links_and_anchors, sources_read>>
    /\ UNCHANGED exceptPipe

\* check_links after the scan: the broken links of the collector, peeked
CheckLinks ==
    /\ pc = "scan"
    /\ todo = {}
    /\ Cardinality(acc) = 1
    /\ broken_links' = get_broken_links((CHOOSE a \in acc : TRUE).collector, check_anchors)
    /\ pc' = IF broken_links' /= <<>> /\ sources_path /= None THEN "sources" ELSE "report"
    /\ stdout' = stdout \o <<Checking(CHOOSE a \in acc : TRUE)>>
                    \o (IF pc' = "sources" THEN <<ReadingSources>> ELSE <<>>)
    /\ UNCHANGED <<check_anchors, corpus, todo, acc, exit_code>>
    /\ UNCHANGED <<sources_path, paragraps_to_sourcefile, bad_links_and_anchors, sources_read>>
    /\ UNCHANGED exceptPipe

\* extract_markdown_paragraphs reads the Markdown files of the source tree
ReadSources ==
    /\ pc = "sources"
    /\ paragraps_to_sourcefile' = extract_markdown_paragraphs(sources_path.some, TRUE)
    /\ sources_read' = {f \in DOMAIN sources_path.some : IsMarkdownFile(f)}
    /\ pc' = "report"
    /\ UNCHANGED <<check_anchors, corpus, todo, acc, broken_links, exit_code>>
    /\ UNCHANGED <<sources_path, bad_links_and_anchors, stdout>>
    /\ UNCHANGED exceptPipe

\* A source file cannot be read: check_links returns the error
SourcesFail(read) ==
    /\ pc = "sources"
    /\ read \subseteq {f \in DOMAIN sources_path.some : IsMarkdownFile(f)}
    /\ sources_read' = read
    /\ pc' = "failed"
    /\ exit_code' = 1
    /\ UNCHANGED <<check_anchors, corpus, todo, acc, broken_links>>
    /\ UNCHANGED <<sources_path, paragraps_to_sourcefile, bad_links_and_anchors, stdout>>
    /\ UNCHANGED exceptPipe

\* The diagnostics of the broken links, and the exit
Report ==
    /\ pc = "report"
    /\ bad_links_and_anchors' = ReportLinks(paragraps_to_sourcefile, broken_links)
    /\ exit_code' = ExitCodeOf(broken_links)
    /\ stdout' = stdout \o PrintedReport(bad_links_and_anchors')
                    \o FoundLines(broken_links, check_anchors)
    /\ pc' = "exited"
    /\ UNCHANGED <<check_anchors, corpus, todo, acc, broken_links>>
    /\ UNCHANGED <<sources_path, paragraps_to_sourcefile, sources_read>>
    /\ UNCHANGED exceptPipe

Next ==
    \/ WalkFails
    \/ \E path \in Files : FoldFirst(path)
    \/ \E a \in acc, path \in Files : FoldNext(a, path)
    \/ \E a \in acc \cup {FoldIdentity}, path \in Files : FoldFails(a, path)
    \/ \E a \in acc, b \in acc : Reduce(a, b)
    \/ \E a \in acc, left \in BOOLEAN : ReduceIdentity(a, left)
    \/ CheckLinks
    \/ ReadSources
    \/ \E read \in SUBSET {SrcS, SrcT} : SourcesFail(read)
    \/ Report

Spec == Init /\ [][Next]_vars

-----------------------------------------------------------------------------
(* Properties of the diagnostics and of the source scan (checked under Spec) *)

\* The diagnostics of a broken link as the index gives them
InIndex(b) ==
    /\ b.paragraph /= None
    /\ \E e \in paragraps_to_sourcefile : e.paragraph = b.paragraph

\* C19: a broken link whose fingerprint is in the paragraph-to-source index
\* has one diagnostic for every (source file, line) of the fingerprint and
\* none under its HTML file; every other broken link has exactly one
\* diagnostic, under the path of its HTML file and without a line number.
C19_Diagnostics ==
    pc = "exited" =>
        /\ \A k \in 1..Len(broken_links) :
            LET b == broken_links[k]
                produced == ReportLink(paragraps_to_sourcefile, b)
            IN  /\ produced \subseteq bad_links_and_anchors
                /\ \A d \in produced :
                        d.href = b.href /\ (d.set = "bad_links" <=> b.hard_404)
                /\ InIndex(b) =>
                    /\ \A e \in paragraps_to_sourcefile :
                        e.paragraph = b.paragraph =>
                            Cardinality({d \in produced :
                                d.filepath = e.source /\ d.lineno = Some(e.lineno)}) = 1
                    /\ \A d \in produced :
                        /\ d.filepath /= b.path
                        /\ \E e \in paragraps_to_sourcefile :
                            /\ e.paragraph = b.paragraph
                            /\ d.filepath = e.source /\ d.lineno = Some(e.lineno)
                /\ ~InIndex(b) =>
                    /\ Cardinality(produced) = 1
                    /\ \A d \in produced : d.filepath = b.path /\ d.lineno = None
        /\ \A d \in bad_links_and_anchors :
            \E k \in 1..Len(broken_links) :
                d \in ReportLink(paragraps_to_sourcefile, broken_links[k])

\* C19 witness: the broken link of the paragraph of index.html is listed
\* under s.md line 3 and t.mdx line 1, the broken link of b.html under b.html.
C19_Witness ==
    /\ pc = "exited"
    /\ Len(broken_links) = 2
    /\ bad_links_and_anchors =
        {Diagnostic(FALSE, SrcS, TRUE, Some(3), <<"m">>),
         Diagnostic(FALSE, SrcT, TRUE, Some(1), <<"m">>),
         Diagnostic(TRUE, FileB, TRUE, None, <<"m">>)}

\* C21: when the enumeration of the directory or the read of a document
\* fails, the run ends with a non-zero exit status and has printed neither
\* the "Checking" line nor a report of broken links, whatever the other
\* workers have folded; and a run that printed them had no such failure.
C21_NoPartialSuccess ==
    /\ pc = "failed" /\ broken_links = <<>> =>
            /\ exit_code = 1
            /\ stdout = <<ReadingFiles>>
            /\ bad_links_and_anchors = {}
    /\ Len(stdout) > 1 =>
            /\ todo = {}
            /\ Cardinality(acc) = 1
            /\ \A a \in acc : Len(a.files) = Cardinality(Files)

\* C21 witness: the read of a document fails after another worker has
\* folded a document with a broken link.
C21_Witness ==
    /\ pc = "failed"
    /\ exit_code = 1
    /\ stdout = <<ReadingFiles>>
    /\ \E a \in acc :
        /\ a.documents_count >= 1
        /\ get_broken_links(a.collector, check_anchors) /= <<>>

\* C20: a source file is read only after the scan and the merge of the site
\* are complete, only with a sources path and at least one broken link.
C20_LazySourceScan ==
    /\ pc \in {"scan", "idle"} => sources_read = {}
    /\ sources_read /= {} =>
        /\ todo = {}
        /\ Cardinality(acc) = 1
        /\ broken_links = get_broken_links((CHOOSE a \in acc : TRUE).collector, check_anchors)
        /\ sources_path /= None
        /\ broken_links /= <<>>
    /\ pc = "exited" /\ broken_links = <<>> => sources_read = {}

\* C20 witness: a run with a sources path and a broken link has read the
\* Markdown files of the tree, and only these.
C20_Witness ==
    /\ pc = "exited"
    /\ sources_read = {SrcS, SrcT}
    /\ broken_links /= <<>>

\* A run with a sources path and no broken link ends without a read.
C20_NoBrokenLinks ==
    /\ pc = "exited"
    /\ sources_path /= None
    /\ broken_links = <<>>
    /\ sources_read = {}

-----------------------------------------------------------------------------
(* The _redirects file of the site root (SpecRedirects). The rules are    *)
(* modelled from src/tests/cli.rs and src/tests/cli_snapshots.rs.          *)

MaxRedirectLines == 2

Redirects == <<"_", "r", "e", "d", "i", "r", "e", "c", "t", "s">>
SubRedirects == <<"d", "/", "_", "r", "e", "d", "i", "r", "e", "c", "t", "s">>
NewPage == <<"n", ".", "h", "t", "m", "l">>
RedirectFiles == {FileIndex, NewPage, Redirects, SubRedirects}

LineComment == <<"#", " ", "c">>
LineBlank == <<>>
LineRule == <<"/", "o", " ", "/", "n", ".", "h", "t", "m", "l", " ", "3", "0", "1">>
LineExternal == <<"/", "x", " ", "h", ":", "x">>
LineBroken == <<"/", "k", " ", "/", "m">>
RedirectLines == {LineComment, LineBlank, LineRule, LineExternal, LineBroken}

\* What index.html may contain: a link to the source of a rule of the root
\* file, a link to the source of the rule with the missing target, a link to
\* the source of the rule of d/_redirects.
AttrsOfRedirectIndex ==
    {Attr("href", <<"/", "o">>, None),
     Attr("href", <<"/", "k">>, None),
     Attr("href", <<"/", "s">>, None)}

RedirectContents(path) ==
    IF path = FileIndex THEN SeqsUpTo(AttrsOfRedirectIndex, MaxLinks)
    ELSE IF path = Redirects THEN SeqsUpTo(RedirectLines, MaxRedirectLines)
    ELSE IF path = SubRedirects THEN {<<<<"/", "s", " ", "/", "n", ".", "h", "t", "m", "l">>>>}
    ELSE {<<>>}

\* Only the file named _redirects at the root of the site holds rules.
IsRedirectsFile(path) == path = Redirects

\* One line of the file: no rule for a blank line or a comment, else the
\* first two fields (a third field, the status, is not read).
RedirectRule(line) ==
    LET fields == split_whitespace(line)
    IN  IF Len(fields) < 2 \/ Head(Head(fields)) = "#" THEN <<>>
        ELSE <<[source |-> fields[1], target |-> fields[2]]>>

\* The links of the rules: the source is defined, the target is used by the
\* _redirects file.
RECURSIVE RedirectLinks(_, _, _)
RedirectLinks(doc, anchors, lines) ==
    IF lines = <<>> THEN <<>>
    ELSE LET rule == RedirectRule(Head(lines))
         IN  (IF rule = <<>> THEN <<>>
              ELSE <<DefinesLink(DocumentJoin(doc, anchors, rule[1].source)),
                     UsesLink(DocumentJoin(doc, anchors, rule[1].target), doc.path, None)>>)
             \o RedirectLinks(doc, anchors, Tail(lines))

\* The fold closure with the _redirects file of the root as a document of
\* its own kind
FoldEntryRedirects(a, path, anchors, content) ==
    LET document == DocumentNew(path)
        all == IngestEach([collector |-> a.collector, ingested |-> a.ingested], path,
                          <<DefinesLink(document.href)>>
                              \o RedirectLinks(document, anchors, content))
    IN  IF IsRedirectsFile(path)
        THEN [collector |-> all.collector,
              documents_count |-> a.documents_count + 1,
              file_count |-> a.file_count + 1,
              files |-> Append(a.files, path),
              blocks |-> {Append(a.files, path)},
              ingested |-> all.ingested]
        ELSE FoldEntry(a, path, anchors, content)

\* What the fold reads of an entry
RedirectRead(path) ==
    IF IsHtmlFile(path) THEN Walked(corpus[path], sources_path /= None) ELSE corpus[path]

RedirectsInit ==
    /\ check_anchors \in BOOLEAN
    /\ corpus \in {[f \in RedirectFiles |->
                        IF f = FileIndex THEN links
                        ELSE IF f = Redirects THEN lines
                        ELSE CHOOSE c \in RedirectContents(f) : TRUE] :
                     links \in RedirectContents(FileIndex),
                     lines \in RedirectContents(Redirects)}
    /\ todo = RedirectFiles
    /\ acc = {}
    /\ pc = "scan"
    /\ broken_links = <<>>
    /\ exit_code = -1
    /\ sources_path = None
    /\ paragraps_to_sourcefile = {}
    /\ bad_links_and_anchors = {}
    /\ sources_read = {}
    /\ stdout = <<ReadingFiles>>
    /\ CollIdle
    /\ UrlIdle
    /\ HashIdle
    /\ ExtractIdle
    /\ MdIdle

\* A worker starts a new accumulator from the fold identity with one entry.
RedirectsFoldFirst(path) ==
    /\ pc = "scan"
    /\ path \in todo
    /\ Cardinality(acc) < NumWorkers
    /\ acc' = acc \cup {FoldEntryRedirects(FoldIdentity, path, check_anchors, RedirectRead(path))}
    /\ todo' = todo \ {path}
    /\ UNCHANGED <<check_anchors, corpus, pc, broken_links, exit_code>>
    /\ UNCHANGED srcVars
    /\ UNCHANGED exceptPipe

\* A worker folds one more entry into its accumulator.
RedirectsFoldNext(a, path) ==
    /\ pc = "scan"
    /\ path \in todo
    /\ a \in acc
    /\ acc' = (acc \ {a}) \cup {FoldEntryRedirects(a, path, check_anchors, RedirectRead(path))}
    /\ todo' = todo \ {path}
    /\ UNCHANGED <<check_anchors, corpus, pc, broken_links, exit_code>>
    /\ UNCHANGED srcVars
    /\ UNCHANGED exceptPipe

RedirectsNext ==
    \/ \E path \in RedirectFiles : RedirectsFoldFirst(path)
    \/ \E a \in acc, path \in RedirectFiles : RedirectsFoldNext(a, path)
    \/ \E a \in acc, b \in acc : Reduce(a, b)
    \/ CheckLinks
    \/ Report

SpecRedirects == RedirectsInit /\ [][RedirectsNext]_vars

-----------------------------------------------------------------------------
(* Properties of the _redirects file (checked under SpecRedirects) *)

BrokenHrefs == {broken_links[k].href : k \in 1..Len(broken_links)}

RuleLines == Range(corpus[Redirects])

IndexLinksTo(value) == \E i \in 1..Len(corpus[FileIndex]) : corpus[FileIndex][i].value = value

\* The Uses that the collector counted: the links of index.html and the
\* local targets of the rules
CountedLinks ==
    Len(corpus[FileIndex])
    + Cardinality({i \in 1..Len(corpus[Redirects]) :
                      corpus[Redirects][i] \in {LineRule, LineBroken}})

C22_WitnessExternal ==
    /\ pc = "exited"
    /\ corpus[Redirects] = <<LineComment, LineExternal>>
    /\ corpus[FileIndex] = <<>>
    /\ broken_links = <<>>
    /\ exit_code = 0

-----------------------------------------------------------------------------
(* Properties of the fold closure and of its counts (checked under Spec) *)

\* The calls of ingest that the accumulator a made for the entry path
EntryLog(a, path) ==
    LET calls == SelectSeq(a.ingested, LAMBDA e : e.path = path)
    IN  [i \in 1..Len(calls) |-> calls[i].link]

\* What the extractor of main yields for the entry path, in tokenization order
ExtractedLinks(path) ==
    DocumentLinks(DocumentNew(path), check_anchors, Walked(corpus[path], sources_path /= None))

\* C31: on every worker and for every file, the Defines of the file's own
\* canonical href is ingested before any link extracted from the file, also
\* when the file is no HTML document and when the read of the document then
\* fails; the links of a document are ingested in tokenization order.
C31_DefinesFirst ==
    /\ \A a \in acc : \A path \in Range(a.files) :
          /\ EntryLog(a, path) /= <<>>
          /\ Head(EntryLog(a, path)) = DefinesLink(DocumentNew(path).href)
          /\ Tail(EntryLog(a, path)) =
                (IF IsHtmlFile(path) THEN ExtractedLinks(path) ELSE <<>>)
    /\ (pc = "failed" /\ todo /= {} /\ acc /= {}) =>
          \E a \in acc : \E path \in todo :
              EntryLog(a, path) = <<DefinesLink(DocumentNew(path).href)>>

\* C31 witness: one worker has folded index.html with two links and the
\* text file, and the read of b.html fails on it.
C31_Witness ==
    /\ pc = "failed"
    /\ Len(corpus[FileIndex]) = 2
    /\ corpus[FileIndex][1] /= corpus[FileIndex][2]
    /\ \E a \in acc :
          /\ a.files = <<FileTxt, FileIndex>>
          /\ Len(EntryLog(a, FileIndex)) = 3
          /\ EntryLog(a, FileTxt) = <<DefinesLink(FileTxt)>>
          /\ EntryLog(a, FileB) = <<DefinesLink(FileB)>>

-----------------------------------------------------------------------------
(* src/src/markdown.rs: DocumentSource::paragraphs over the lines of one  *)
(* source file (SpecMarkdown)                                              *)

MaxMdLines == 4

\* The lines a source file is made of: text, a blank line, a line of HTML,
\* a line of a definition list
MdLinePool == {<<"a">>, <<"b">>, <<>>, <<"<", "x">>, <<":", " ", "a">>}

\* The lines of the buffer text, which ends every line with a newline
TextLines(text) == IF text = <<>> THEN <<>> ELSE DropLast(Split(text, "\n"))

\* Parser::new(&text).into_offset_iter() on a text whose lines are blank or
\* plain text: a paragraph for every run of lines that are not blank, its
\* range ending after its last line, with or without the newline (nl).
\* offset is where the first of the lines starts, open whether a paragraph
\* is open there.
RECURSIVE OffsetIter(_, _, _, _)
OffsetIter(lines, offset, open, nl) ==
    LET closing == IF open
                   THEN <<MdEnd("Paragraph", IF nl THEN offset ELSE offset - 1)>>
                   ELSE <<>>
    IN  IF lines = <<>> THEN closing
        ELSE IF Head(lines) = <<>>
        THEN closing \o OffsetIter(Tail(lines), offset + 1, FALSE, nl)
        ELSE (IF open THEN <<MdSoftBreak>> ELSE <<MdStart("Paragraph")>>)
             \o <<MdText(Head(lines))>>
             \o OffsetIter(Tail(lines), offset + Len(Head(lines)) + 1, TRUE, nl)

MarkdownInit ==
    /\ md_lines \in SeqsUpTo(MdLinePool, MaxMdLines)
    /\ md_i = 0
    /\ md_text = <<>>
    /\ md_line_numbers = <<>>
    /\ md_nl \in BOOLEAN
    /\ md_rv = <<>>
    /\ md_pc = "reading"
    /\ CollIdle
    /\ PipeIdle
    /\ UrlIdle
    /\ HashIdle
    /\ ExtractIdle

\* One turn of the loop over the lines of the file, for a line that starts
\* with '<': continue
MdSkipLine ==
    /\ md_pc = "reading"
    /\ md_i < Len(md_lines)
    /\ StartsWith(md_lines[md_i + 1], <<"<">>)
    /\ md_i' = md_i + 1
    /\ UNCHANGED <<md_lines, md_text, md_line_numbers, md_nl, md_rv, md_pc>>
    /\ UNCHANGED exceptMd

\* One turn of the loop over the lines of the file, for any other line
MdPushLine ==
    /\ md_pc = "reading"
    /\ md_i < Len(md_lines)
    /\ ~StartsWith(md_lines[md_i + 1], <<"<">>)
    /\ LET read == md_lines[md_i + 1]
           line == IF StartsWith(read, <<":", " ">>) THEN SubSeq(read, 3, Len(read)) ELSE read
       IN  /\ md_text' = md_text \o line \o <<"\n">>
           /\ md_line_numbers' = Append(md_line_numbers, Len(md_text'))
    /\ md_i' = md_i + 1
    /\ UNCHANGED <<md_lines, md_nl, md_rv, md_pc>>
    /\ UNCHANGED exceptMd

\* The loop over the events of the parser, with the paragraph walker that
\* hashes
MdParse ==
    /\ md_pc = "reading"
    /\ md_i = Len(md_lines)
    /\ md_rv' = MdParagraphs(TRUE, OffsetIter(TextLines(md_text), 0, FALSE, md_nl),
                             md_line_numbers)
    /\ md_pc' = "done"
    /\ UNCHANGED <<md_lines, md_i, md_text, md_line_numbers, md_nl>>
    /\ UNCHANGED exceptMd

MarkdownNext ==
    \/ MdSkipLine
    \/ MdPushLine
    \/ MdParse

SpecMarkdown == MarkdownInit /\ [][MarkdownNext]_vars

-----------------------------------------------------------------------------
(* Properties of the line numbers (checked under SpecMarkdown) *)

\* The lines of the file that reach the parser, by their 1-based number in
\* the file
KeptLines == SelectSeq([i \in 1..Len(md_lines) |-> i],
                       LAMBDA i : ~StartsWith(md_lines[i], <<"<">>))

\* The k-th line that reaches the parser ends a paragraph: it is not blank
\* and the next one, if any, is
EndsParagraph(k) ==
    /\ md_lines[KeptLines[k]] /= <<>>
    /\ k = Len(KeptLines) \/ md_lines[KeptLines[k + 1]] = <<>>

\* For every paragraph of the file, in order, the number in the file of the
\* line on which it ends
ParagraphEndLines ==
    LET ends == SelectSeq([k \in 1..Len(KeptLines) |-> k], EndsParagraph)
    IN  [j \in 1..Len(ends) |-> KeptLines[ends[j]]]

\* C33: the line number of a Markdown paragraph is the 1-based number, in
\* the source file, of the line on which the paragraph ends, also in files
\* in which lines starting with '<' were dropped or a leading ': ' was
\* stripped before the paragraph.
C33_LineNumbers ==
    md_pc = "done" =>
        /\ Len(md_rv) = Len(ParagraphEndLines)
        /\ \A j \in 1..Len(md_rv) : md_rv[j].lineno = ParagraphEndLines[j]

\* The line number is the number of the line among the lines that were not
\* dropped.
C33_KeptLineNumbers ==
    md_pc = "done" =>
        /\ Len(md_rv) = Len(ParagraphEndLines)
        /\ \A j \in 1..Len(md_rv) :
              \E k \in 1..Len(KeptLines) :
                  /\ KeptLines[k] = ParagraphEndLines[j]
                  /\ md_rv[j].lineno = k

\* A file with a line of HTML before its second paragraph, the first one
\* of two lines and with a stripped ': '.
C33_DroppedLine ==
    /\ md_pc = "done"
    /\ md_lines = <<<<":", " ", "a">>, <<"b">>, <<"<", "x">>, <<"a">>>>
    /\ Len(md_rv) = 1
    /\ md_rv[1].lineno = 3

-----------------------------------------------------------------------------
(* Properties of the printed report (checked under Spec) *)

\* The positions of the lines of the standard output that name a file
FileLines == {i \in 1..Len(stdout) : stdout[i].line = "file"}

\* The positions of the lines that report a link
EntryLines == {i \in 1..Len(stdout) : stdout[i].line = "error: bad link"}

\* The line that names the file of the group of line i
GroupOf(i) == CHOOSE g \in FileLines : g < i /\ \A h \in FileLines : h < i => h <= g

\* The file a group is printed under is a Markdown file of the sources
IsSourceGroup(g) ==
    /\ sources_path /= None
    /\ stdout[g].filepath \in DOMAIN sources_path.some

\* C34: in the printed report every group of a Markdown source precedes
\* every group of a generated HTML file, the groups of each of the two
\* classes are in ascending order of their paths, and within a group the
\* bad links precede the bad anchors.
C34_ReportOrder ==
    /\ \A g \in FileLines : \A h \in FileLines :
          g < h =>
              /\ IsSourceGroup(h) => IsSourceGroup(g)
              /\ (IsSourceGroup(g) <=> IsSourceGroup(h)) =>
                    StrLess(stdout[g].filepath, stdout[h].filepath)
    /\ \A i \in EntryLines : \A j \in EntryLines :
          (i < j /\ GroupOf(i) = GroupOf(j) /\ stdout[i].set = "bad_anchors")
              => stdout[j].set = "bad_anchors"
    /\ pc = "exited" =>
          \A d \in bad_links_and_anchors :
              \E i \in EntryLines :
                  /\ stdout[GroupOf(i)].filepath = d.filepath
                  /\ stdout[i].href = d.href
                  /\ stdout[i].lineno = d.lineno
                  /\ stdout[i].set = d.set

\* C34 witness: the report lists s.md and t.mdx before b.html.
C34_Witness ==
    /\ pc = "exited"
    /\ \E g, h, k \in FileLines :
          /\ g < h /\ h < k
          /\ stdout[g].filepath = SrcS
          /\ stdout[h].filepath = SrcT
          /\ stdout[k].filepath = FileB

\* C34 witness: a group of index.html with a bad link and a bad anchor.
C34_WitnessAnchors ==
    /\ pc = "exited"
    /\ \E i, j \in EntryLines :
          /\ i < j
          /\ GroupOf(i) = GroupOf(j)
          /\ stdout[GroupOf(i)].filepath = FileIndex
          /\ stdout[i].set = "bad_links"
          /\ stdout[j].set = "bad_anchors"

-----------------------------------------------------------------------------
(* Properties of merge with a new collector (checked under SpecCollector) *)

\* C35: merging a collector with a collector just created, on either side,
\* leaves the map from href to state, the stored usages and used_link_count
\* as they were.
C35_MergeIdentity ==
    [][\A i \in Slots : \A j \in Slots :
          CMerge(i, j) =>
              /\ colls[j] = CollectorNew => colls'[i] = colls[i]
              /\ colls[i] = CollectorNew => colls'[i] = colls[j]]_vars

\* C35 witness: one slot holds a defined href and an undefined one with a
\* stored usage after two merges that emptied the two other slots, one of
\* which never ingested a link.
C35_Witness ==
    \E i \in Slots : \E j \in Slots \ {i} :
        /\ owner[j] = i
        /\ owner[i] = i
        /\ hist[j] = <<>>
        /\ colls[j] = CollectorNew
        /\ colls[i].used_link_count > 0
        /\ \E h \in DOMAIN colls[i].links : colls[i].links[h] = Defined
        /\ \E h \in DOMAIN colls[i].links :
              /\ colls[i].links[h] /= Defined
              /\ colls[i].links[h].links /= <<>>
        /\ \E k \in Slots \ {i, j} : owner[k] = i

-----------------------------------------------------------------------------
(* Properties of the report of one local link (checked under SpecUrls) *)

\* The raw href as the extractor reads it
NormalizedRaw == try_normalize_href_value(u_raw)

\* The link of the document is in the report
LinkReported ==
    /\ Len(u_report) = 1
    /\ u_report[1].href = u_href[1]
    /\ u_report[1].path = u_path

\* C36: a Uses link extracted from a raw href that is not external, whose
\* canonical href no file and no anchor of the site defines, yields a
\* BrokenLink in the report, whatever characters its canonical href holds.
C36_LocalLinkReported ==
    (/\ u_pc = "checked"
     /\ ~is_external_link(NormalizedRaw)
     /\ u_href[1] /= DocumentNew(u_path).href)
        => LinkReported

\* The link is reported whenever its canonical href does not read as a
\* scheme or as protocol-relative.
C36_GoodSchemaReported ==
    (/\ u_pc = "checked"
     /\ ~is_bad_schema(u_href[1])
     /\ u_href[1] /= DocumentNew(u_path).href)
        => LinkReported

\* The link /a: of b.html is extracted and not reported.
C36_Dropped ==
    /\ u_pc = "checked"
    /\ u_path = FileB
    /\ u_raw = <<"/", "a", ":">>
    /\ u_links = <<UsesLink(<<"a", ":">>, FileB, None)>>
    /\ u_report = <<>>

-----------------------------------------------------------------------------
(* The report against the fold of one worker (checked under Spec) *)

\* The broken links of one collector that ingested all documents one after
\* the other
SequentialLinks == get_broken_links(Sequential.collector, check_anchors)

\* The index of the paragraphs that check_links builds for these links
SequentialIndex ==
    IF SequentialLinks /= <<>> /\ sources_path /= None
    THEN extract_markdown_paragraphs(sources_path.some, TRUE)
    ELSE {}

\* C37: the groups of the report, the (line, href) entries of each group,
\* the two totals and the exit code are a function of the scanned files and
\* the options: a run with any number of workers, any split of the files and
\* any order of the reduce prints what the run of one worker prints.
C37_ReportDeterministic ==
    pc = "exited" =>
        /\ bad_links_and_anchors = ReportLinks(SequentialIndex, SequentialLinks)
        /\ stdout = <<ReadingFiles, Checking(Sequential)>>
                    \o (IF SequentialIndex /= {} \/ (SequentialLinks /= <<>> /\ sources_path /= None)
                        THEN <<ReadingSources>> ELSE <<>>)
                    \o PrintedReport(ReportLinks(SequentialIndex, SequentialLinks))
                    \o FoundLines(SequentialLinks, check_anchors)
        /\ exit_code = ExitCodeOf(SequentialLinks)

\* C37 witness: two workers, reduced with the later files on the left, and
\* a report of two usages of one href in two documents.
C37_Witness ==
    /\ pc = "exited"
    /\ Cardinality(Final.blocks) = 2
    /\ Final.files /= SortedKeys(Files)
    /\ Len(broken_links) = 2
    /\ broken_links[1].href = broken_links[2].href
    /\ broken_links[1].path /= broken_links[2].path
    /\ broken_links /= SequentialLinks

-----------------------------------------------------------------------------
(* Properties of the totals (checked under Spec) *)

\* The count of the printed line of that text, -1 if no such line is printed
Total(text) ==
    IF \E i \in 1..Len(stdout) : stdout[i].line = text
    THEN stdout[CHOOSE i \in 1..Len(stdout) : stdout[i].line = text].count
    ELSE -1

\* The broken links with that value of hard_404
BrokenWith(hard_404) == {k \in 1..Len(broken_links) : broken_links[k].hard_404 = hard_404}

\* C38: the totals count one per broken usage: 'Found X bad links' has the
\* number of BrokenLinks with hard_404, 'Found Y bad anchors' the number
\* without, X + Y is the number of BrokenLinks, however many error lines
\* the report has; without anchor checking no BrokenLink is a bad anchor.
C38_Totals ==
    pc = "exited" =>
        /\ Total("Found bad links") = Cardinality(BrokenWith(TRUE))
        /\ check_anchors =>
              /\ Total("Found bad anchors") = Cardinality(BrokenWith(FALSE))
              /\ Total("Found bad links") + Total("Found bad anchors") = Len(broken_links)
        /\ ~check_anchors =>
              /\ Total("Found bad anchors") = -1
              /\ BrokenWith(FALSE) = {}
              /\ Total("Found bad links") = Len(broken_links)

\* C38 witness: two usages of one href in one document make one error line
\* and a total of two.
C38_Witness ==
    /\ pc = "exited"
    /\ Len(broken_links) = 2
    /\ broken_links[1] = broken_links[2]
    /\ Cardinality(EntryLines) = 1
    /\ Total("Found bad links") = 2

\* C38 witness: one usage listed under two Markdown sources makes two
\* error lines and a total of one, and a bad anchor is counted apart.
C38_WitnessSources ==
    /\ pc = "exited"
    /\ check_anchors
    /\ Cardinality(BrokenWith(TRUE)) = 1
    /\ Cardinality(BrokenWith(FALSE)) = 1
    /\ Cardinality(EntryLines) = 3
    /\ Total("Found bad links") = 1
    /\ Total("Found bad anchors") = 1

-----------------------------------------------------------------------------
(* Properties of the anchor definitions (checked under SpecUrls) *)

\* The Defines links of the link buffer
DefinesOfBuffer == {u_links[k].href : k \in {j \in 1..Len(u_links) : u_links[j].kind = "Defines"}}

\* The element bears an anchor: an id on any element, a name on an a
BearsAnchor == u_target.name = "id" \/ u_target.tag = "a"

\* C39 as stated: every Defines of the extractor for a document D has the
\* href of D, or the href of D followed by '#' and the attribute value; no
\* anchor Defines is emitted when anchors are not checked.
C39_AnchorDefines ==
    u_pc = "anchor" =>
        /\ \A href \in DefinesOfBuffer :
              \/ href = DocumentNew(u_path).href
              \/ href = DocumentNew(u_path).href \o <<"#">> \o u_raw
        /\ ~u_target.anchors => DefinesOfBuffer = {}

\* C39 amended: the href of D is followed by '#' and the attribute value
\* trimmed and percent-decoded, and is the href of D alone when the trimmed
\* value is empty; so the Defines never has the path of another document.
C39_AnchorDefinesDecoded ==
    u_pc = "anchor" =>
        /\ DefinesOfBuffer =
              (IF u_target.anchors /\ BearsAnchor
               THEN {IF try_normalize_href_value(u_raw) = <<>>
                     THEN DocumentNew(u_path).href
                     ELSE DocumentNew(u_path).href \o <<"#">>
                          \o try_percent_decode(try_normalize_href_value(u_raw))}
               ELSE {})
        /\ \A href \in DefinesOfBuffer :
              \/ href = DocumentNew(u_path).href
              \/ StartsWith(href, DocumentNew(u_path).href \o <<"#">>)
        /\ ~u_target.anchors => DefinesOfBuffer = {}

\* C39 witness: the id ../a of d/b.html defines d/b.html#../a
C39_Witness ==
    /\ u_pc = "anchor"
    /\ u_path = FileDB
    /\ u_raw = <<".", ".", "/", "a">>
    /\ u_target.name = "id"
    /\ DefinesOfBuffer = {FileDB \o <<"#", ".", ".", "/", "a">>}

\* C39 witness: the name %62 of an a of d/index.html defines d#b
C39_WitnessDecoded ==
    /\ u_pc = "anchor"
    /\ u_path = FileDIndex
    /\ u_raw = <<"%", "6", "2">>
    /\ u_target.name = "name"
    /\ DefinesOfBuffer = {DirD \o <<"#", "b">>}

-----------------------------------------------------------------------------
(* Properties of last_paragraph_i (checked under SpecExtract) *)

\* The emitter between the callbacks of a start tag: after the attributes
\* are flushed into the link buffer, and after set_self_closing
DuringStartTag(tag) ==
    LET opened == PushAttributes(push_tag_name(init_start_tag(e_em), tag.name), tag.attrs)
    IN  {opened, set_self_closing(opened)}

InBounds(em) == em.last_paragraph_i <= Len(em.link_buf)

\* C40: last_paragraph_i is at most the length of the link buffer after
\* every callback, and the links before last_paragraph_i are never modified
\* again: a step only modifies Uses links after last_paragraph_i, which are
\* before it afterwards, so a link gets a fingerprint at most once.
C40_IndexAndOnce ==
    /\ [](/\ InBounds(e_em)
          /\ \A tag \in StartTags : \A em \in DuringStartTag(tag) : InBounds(em))
    /\ [][/\ Len(e_em'.link_buf) >= Len(e_em.link_buf)
          /\ e_em'.last_paragraph_i >= e_em.last_paragraph_i
          /\ \A i \in 1..Len(e_em.link_buf) :
                e_em'.link_buf[i] /= e_em.link_buf[i] =>
                    /\ i > e_em.last_paragraph_i
                    /\ i <= e_em'.last_paragraph_i
                    /\ e_em.link_buf[i].kind = "Uses"
                    /\ e_em.link_buf[i].paragraph = None]_vars

\* C40 witness: the link of a closed paragraph has its fingerprint, and a
\* link of the next paragraph, which is open, is behind last_paragraph_i.
C40_Witness ==
    /\ e_pc = "html"
    /\ Len(e_em.link_buf) = 2
    /\ e_em.last_paragraph_i = 1
    /\ e_em.in_paragraph
    /\ e_em.link_buf[1].kind = "Uses"
    /\ e_em.link_buf[1].paragraph /= None
    /\ e_em.link_buf[2].kind = "Uses"
    /\ e_em.link_buf[2].paragraph = None
    /\ Len(e_pars) = 1

====
